---- MODULE Spec2Model ----
(***************************************************************************)
(* A model of badger-rs: the watermark consumer, the transaction layer,    *)
(* the write pipeline and the memtable WAL replay.                         *)
(***************************************************************************)
EXTENDS Integers, Sequences, FiniteSets, TLC

(***************************************************************************)
(* Bounds of the model.                                                    *)
(***************************************************************************)
MaxIndex == 2
MaxMarks == 4
MaxInFlight == 2
NumCallers == 1
NumTxns == 2
MaxCalls == 4
MaxTime == 1
MaxVersion == 1
HashSpace == 256
MaxReqs == 3
MaxEntries == 1
MaxFrames == 3
MaxTs == 2
MaxTableId == 2
MaxLevel == 1
MaxChanges == 2
MaxCreations == 3
MaxCells == 4
MaxFid == 2
MaxDiscard == 2
MaxKeys == 4
MaxKeyLen == 2
MaxKeyByte == 2
MaxZeroBytes == 8
MaxVlogReqs == 2
MaxVlogEntries == 2
MaxValueLen == 2
MaxVlogFid == 4
NumReaders == 2
MaxReadTsCalls == 3
MaxMemFiles == 2
MaxRecords == 2
MaxCutChanges == 3
MaxSends == 5
MaxGrowCalls == 20
MaxHave == 14

(***************************************************************************)
(* Program constants.                                                      *)
(***************************************************************************)
MARK_CHANNEL_CAPACITY == 100
KV_WRITE_CH_CAPACITY == 1000
VLOG_HEADER_SIZE == 20
CRC_SIZE == 4
MEM_TABLE_SIZE == 67108864
BIT_TXN == 64
BIT_FIN_TXN == 128
MAX_KEY_SIZE == 65000
MAX_VALUE_THRESHOLD == 1048576
VALUE_LOG_FILE_SIZE == 536870912
NAMESPACE_OFFSET == -1
MANIFEST_HEADER_LEN == 8
RECORD_HEADER_LEN == 8

\* the largest key length LogFile::entry accepts: 1 << 16
MAX_KEY_LEN == 65536

\* open_mmap_file(fname, options, 1 << 20) in DiscardStatsInner::new
DISCARD_MAP_SIZE == 1048576

\* the updates of one burst: a sixteenth of the cells of the first map
GrowBurst == 4096

(***************************************************************************)
(* Helpers on finite maps (HashMap) and sets.                              *)
(***************************************************************************)
MapRemove(m, k) == [x \in (DOMAIN m) \ {k} |-> m[x]]

MapPut(m, k, v) == [x \in (DOMAIN m) \cup {k} |-> IF x = k THEN v ELSE m[x]]

EmptyMap == [x \in {} |-> 0]

SetMin(S) == CHOOSE x \in S : \A y \in S : x <= y

SetMax(S) == CHOOSE x \in S : \A y \in S : x >= y

Min2(a, b) == IF a <= b THEN a ELSE b

(***************************************************************************)
(* The state.                                                              *)
(*                                                                         *)
(* Watermark (src/src/txn/watermark.rs): see the watermark section.        *)
(*                                                                         *)
(* Oracle and transactions (src/src/txn/oracle.rs, src/src/txn/txn.rs,     *)
(* src/src/db.rs):                                                         *)
(* opt              the Options the DB was opened with                     *)
(* orc_next_txn_ts  Txnx.next_txn_ts                                       *)
(* banned           DBInner.bannedNamespaces                               *)
(* in_runtime       the callers run on the threads of a tokio runtime, as  *)
(*                  the tasks of #[tokio::test] do, where                  *)
(*                  Runtime::block_on panics                               *)
(* txn              per transaction: its place in its life and its fields  *)
(* rm_log           the marks sent to the read watermark, in order, each   *)
(*                  with the transaction that sent it                      *)
(* txn_last         the last set, delete, set_entry or get call and what   *)
(*                  it returned                                            *)
(* txn_writes       per transaction: the accepted writes, in order         *)
(* txn_reads        per transaction: the keys get looked up outside        *)
(*                  pending_writes                                         *)
(* commit_log       the transactions on which commit was called, in order  *)
(* commit_result, commit_ts  per transaction: what commit returned         *)
(* txn_calls        the number of new_transaction, set, delete, set_entry *)
(*                  and get calls                                          *)
(*                                                                         *)
(* Write loop (src/src/write.rs, src/src/db.rs):                           *)
(* wr_block_writes  DBInner.block_writes                                   *)
(* wr_ch            the requests in the write channel, oldest first        *)
(* wr_buf           write_req_buf of do_writes                             *)
(* wr_permit        the Notify of do_writes holds a permit                 *)
(* wr_loop          where do_writes waits: at the outer or the inner select*)
(* wr_running       the batches handed to write_reqs that have not ended   *)
(* wr_req           per request: where it is, the number of its entries,   *)
(*                  its result field, what its batch ended with and what   *)
(*                  its one-shot reply channel holds                       *)
(*                                                                         *)
(* Memtable and WAL (src/src/memtable.rs):                                 *)
(* wal_disk         the .mem file on disk: the frames after its 20-byte    *)
(*                  header, what follows the last frame, and its length    *)
(* wal_orig         the .mem file as it was before it was opened           *)
(* wal_mt           the MemTable made from the file: its skip list, the    *)
(*                  size of its LogFile, or the error of the open          *)
(*                                                                         *)
(* Manifest (src/src/manifest.rs):                                         *)
(* mf_state         where replay_manifest_file is: not started, reading    *)
(*                  change sets, or returned with the error of one         *)
(* mf_manifest      the Manifest that apply_change_set is handed           *)
(* mf_before        that Manifest before the last change set               *)
(* mf_last          the last change set and whether it was applied         *)
(*                                                                         *)
(* Discard stats (src/src/vlog/discard.rs):                                *)
(* ds_file          the first cells of the DISCARD file, 16 bytes each: a  *)
(*                  fid and its discarded bytes; the cells after them are  *)
(*                  zero; no cells while the file does not exist           *)
(* ds_open          a DiscardStats maps the file                           *)
(* ds_next_empty_slot  DiscardStatsInner.next_empty_slot                   *)
(* ds_last          the last call, what it returned, and the discarded     *)
(*                  bytes of its fid before it (-1: the fid was not there) *)
(* ds_at_close      per fid, what update(fid, 0) returned when the         *)
(*                  DiscardStats was last dropped                          *)
(*                                                                         *)
(* Table and its iterator (src/src/table):                                 *)
(* tb_keys          the keys given to Builder::add, in order               *)
(* tb_block_size    Options.block_size of the builder                      *)
(* tb_overflow_checks  the build panics on integer overflow (debug) or     *)
(*                  wraps (release)                                        *)
(* tb_table         the table built: its blocks, the base keys of its      *)
(*                  index, smallest and biggest                            *)
(* tb_it            the table Iterator: bpos, its BlockIterator, and       *)
(*                  whether a call on it panicked                          *)
(* tb_last          the last call on the iterator and what it returned     *)
(* tb_walk          the keys seen since the last seek_to_first by next     *)
(*                  alone, or since the last seek_to_last by prev alone    *)
(*                                                                         *)
(* DBInner::is_banned on its own (src/src/db.rs):                          *)
(* bn_key           the key of the last call                               *)
(* bn_namespace_offset  opt.namespace_offset of the DB it was called on    *)
(* bn_banned        the keys of bannedNamespaces of that DB                *)
(* bn_result        what the call returned                                 *)
(*                                                                         *)
(* LevelsController::new (src/src/level/level.rs):                         *)
(* lv_disk          the names of the files in opt.dir                      *)
(* lv_manifest      the table ids of the manifest (the keys of mf.tables)  *)
(* lv_before        the files in opt.dir when new was called               *)
(* lv_result        what new returned                                      *)
(*                                                                         *)
(* ValueLog (src/src/vlog/value.rs, src/src/vlog/write.rs):                *)
(* vl_opt           the Options of the value log                           *)
(* vl_max_fid       ValueLog.max_fid, the fid of the file being written    *)
(* vl_woffset       ValueLog.writeable_log_offset                          *)
(* vl_num_entries_written  ValueLog.num_entries_written                    *)
(* vl_last          the last call of write: its requests with the value    *)
(*                  pointers they hold afterwards, the fid and offset it   *)
(*                  started with and how it ended                          *)
(*                                                                         *)
(* Oracle::read_ts step by step (src/src/txn/oracle.rs):                   *)
(* ro_next_txn_ts   Txnx.next_txn_ts                                       *)
(* ro_lock          the caller that holds the txnx mutex, 0 when free      *)
(* ro_pc            where each caller of read_ts stands                    *)
(* ro_rt            the read_ts each caller computed                       *)
(* ro_read_marks    the Begin marks sent to the read watermark             *)
(* ro_txn_ch        the channel of the txn watermark                       *)
(* ro_txn_waiters   the waiters map of the txn watermark's process         *)
(* ro_calls         the number of calls of read_ts so far                  *)
(***************************************************************************)
VARIABLES wm_ch, wm_done_until, wm_last_index, wm_pending, wm_heap, wm_waiters,
          wm_task, wm_notified, wm_caller, wm_wait_index,
          wm_sent_begin, wm_sent_done

wm_vars == <<wm_ch, wm_done_until, wm_last_index, wm_pending, wm_heap, wm_waiters,
             wm_task, wm_notified, wm_caller, wm_wait_index,
             wm_sent_begin, wm_sent_done>>

VARIABLES opt, orc_next_txn_ts, banned, in_runtime, txn, rm_log, txn_last,
          txn_writes, txn_reads, commit_log, commit_result, commit_ts, txn_calls

txn_vars == <<opt, orc_next_txn_ts, banned, in_runtime, txn, rm_log, txn_last,
              txn_writes, txn_reads, commit_log, commit_result, commit_ts, txn_calls>>

VARIABLES wr_block_writes, wr_ch, wr_buf, wr_permit, wr_loop, wr_running, wr_req

wr_vars == <<wr_block_writes, wr_ch, wr_buf, wr_permit, wr_loop, wr_running, wr_req>>

VARIABLES wal_disk, wal_orig, wal_mt

wal_vars == <<wal_disk, wal_orig, wal_mt>>

VARIABLES mf_state, mf_manifest, mf_before, mf_last

mf_vars == <<mf_state, mf_manifest, mf_before, mf_last>>

VARIABLES ds_file, ds_open, ds_next_empty_slot, ds_last, ds_at_close

ds_vars == <<ds_file, ds_open, ds_next_empty_slot, ds_last, ds_at_close>>

VARIABLES tb_keys, tb_block_size, tb_overflow_checks, tb_table, tb_it, tb_last,
          tb_walk

tb_vars == <<tb_keys, tb_block_size, tb_overflow_checks, tb_table, tb_it, tb_last,
             tb_walk>>

VARIABLES bn_key, bn_namespace_offset, bn_banned, bn_result

bn_vars == <<bn_key, bn_namespace_offset, bn_banned, bn_result>>

VARIABLES lv_disk, lv_manifest, lv_before, lv_result

lv_vars == <<lv_disk, lv_manifest, lv_before, lv_result>>

VARIABLES vl_opt, vl_max_fid, vl_woffset, vl_num_entries_written, vl_last

vl_vars == <<vl_opt, vl_max_fid, vl_woffset, vl_num_entries_written, vl_last>>

VARIABLES ro_next_txn_ts, ro_lock, ro_pc, ro_rt, ro_read_marks, ro_txn_ch, ro_txn_waiters, ro_calls

ro_vars == <<ro_next_txn_ts, ro_lock, ro_pc, ro_rt, ro_read_marks, ro_txn_ch, ro_txn_waiters, ro_calls>>

VARIABLES op_mem_files, op_tables, op_db, op_rt

op_vars == <<op_mem_files, op_tables, op_db, op_rt>>

VARIABLES mr_file, mr_last

mr_vars == <<mr_file, mr_last>>

VARIABLES wq_db, wq_last

wq_vars == <<wq_db, wq_last>>

VARIABLES lp_ch, lp_buf, lp_permit, lp_close, lp_pc, lp_running, lp_sends

lp_vars == <<lp_ch, lp_buf, lp_permit, lp_close, lp_pc, lp_running, lp_sends>>

VARIABLES dg_len, dg_next_empty_slot, dg_last

dg_vars == <<dg_len, dg_next_empty_slot, dg_last>>

VARIABLES en_input, en_last

en_vars == <<en_input, en_last>>

\* everything but the watermark, but the transactions, but the write loop,
\* but the memtable and its WAL
not_wm_vars == <<txn_vars, wr_vars, wal_vars, mf_vars, ds_vars, tb_vars, bn_vars, lv_vars, vl_vars, ro_vars, op_vars, mr_vars, wq_vars, lp_vars, dg_vars, en_vars>>

not_txn_vars == <<wm_vars, wr_vars, wal_vars, mf_vars, ds_vars, tb_vars, bn_vars, lv_vars, vl_vars, ro_vars, op_vars, mr_vars, wq_vars, lp_vars, dg_vars, en_vars>>

not_wr_vars == <<wm_vars, txn_vars, wal_vars, mf_vars, ds_vars, tb_vars, bn_vars, lv_vars, vl_vars, ro_vars, op_vars, mr_vars, wq_vars, lp_vars, dg_vars, en_vars>>

not_wal_vars == <<wm_vars, txn_vars, wr_vars, mf_vars, ds_vars, tb_vars, bn_vars, lv_vars, vl_vars, ro_vars, op_vars, mr_vars, wq_vars, lp_vars, dg_vars, en_vars>>

not_mf_vars == <<wm_vars, txn_vars, wr_vars, wal_vars, ds_vars, tb_vars, bn_vars, lv_vars, vl_vars, ro_vars, op_vars, mr_vars, wq_vars, lp_vars, dg_vars, en_vars>>

not_ds_vars == <<wm_vars, txn_vars, wr_vars, wal_vars, mf_vars, tb_vars, bn_vars, lv_vars, vl_vars, ro_vars, op_vars, mr_vars, wq_vars, lp_vars, dg_vars, en_vars>>

not_tb_vars == <<wm_vars, txn_vars, wr_vars, wal_vars, mf_vars, ds_vars, bn_vars, lv_vars, vl_vars, ro_vars, op_vars, mr_vars, wq_vars, lp_vars, dg_vars, en_vars>>

not_bn_vars == <<wm_vars, txn_vars, wr_vars, wal_vars, mf_vars, ds_vars, tb_vars, lv_vars, vl_vars, ro_vars, op_vars, mr_vars, wq_vars, lp_vars, dg_vars, en_vars>>

not_lv_vars == <<wm_vars, txn_vars, wr_vars, wal_vars, mf_vars, ds_vars, tb_vars, bn_vars, vl_vars, ro_vars, op_vars, mr_vars, wq_vars, lp_vars, dg_vars, en_vars>>

not_vl_vars == <<wm_vars, txn_vars, wr_vars, wal_vars, mf_vars, ds_vars, tb_vars, bn_vars, lv_vars, ro_vars, op_vars, mr_vars, wq_vars, lp_vars, dg_vars, en_vars>>

not_ro_vars == <<wm_vars, txn_vars, wr_vars, wal_vars, mf_vars, ds_vars, tb_vars, bn_vars, lv_vars, vl_vars, op_vars, mr_vars, wq_vars, lp_vars, dg_vars, en_vars>>

not_op_vars == <<wm_vars, txn_vars, wr_vars, wal_vars, mf_vars, ds_vars, tb_vars, bn_vars, lv_vars, vl_vars, ro_vars, mr_vars, wq_vars, lp_vars, dg_vars, en_vars>>

not_mr_vars == <<wm_vars, txn_vars, wr_vars, wal_vars, mf_vars, ds_vars, tb_vars, bn_vars, lv_vars, vl_vars, ro_vars, op_vars, wq_vars, lp_vars, dg_vars, en_vars>>

not_wq_vars == <<wm_vars, txn_vars, wr_vars, wal_vars, mf_vars, ds_vars, tb_vars, bn_vars, lv_vars, vl_vars, ro_vars, op_vars, mr_vars, lp_vars, dg_vars, en_vars>>

not_lp_vars == <<wm_vars, txn_vars, wr_vars, wal_vars, mf_vars, ds_vars, tb_vars, bn_vars, lv_vars, vl_vars, ro_vars, op_vars, mr_vars, wq_vars, dg_vars, en_vars>>

not_dg_vars == <<wm_vars, txn_vars, wr_vars, wal_vars, mf_vars, ds_vars, tb_vars, bn_vars, lv_vars, vl_vars, ro_vars, op_vars, mr_vars, wq_vars, lp_vars, en_vars>>

not_en_vars == <<wm_vars, txn_vars, wr_vars, wal_vars, mf_vars, ds_vars, tb_vars, bn_vars, lv_vars, vl_vars, ro_vars, op_vars, mr_vars, wq_vars, lp_vars, dg_vars>>

(***************************************************************************)
(* WaterMark (src/src/txn/watermark.rs).                                   *)
(*                                                                         *)
(* wm_ch          the mpsc channel of Mark commands                        *)
(* wm_done_until  WaterMarkInner.done_until                                *)
(* wm_last_index  WaterMarkInner.last_index                                *)
(* wm_pending     process(): pending: HashMap<u64, i32>                    *)
(* wm_heap        process(): heap: BinaryHeap<Reverse<u64>>                *)
(* wm_waiters     process(): waiters: HashMap<u64, Vec<Arc<Notify>>>       *)
(* wm_task        the consumer task: running, or ended by a panic          *)
(* wm_notified    per caller of wait_for_mark: its Notify holds a permit   *)
(* wm_caller      per caller: idle, waiting (Wait sent), returned          *)
(* wm_wait_index  per caller: the index it waits for                       *)
(* wm_sent_begin, wm_sent_done  number of begin(i), done(i) calls made     *)
(***************************************************************************)
Indices == 0..MaxIndex

Callers == 1..NumCallers

MarkBegin(i) == [kind |-> "Begin", index |-> i, waiter |-> 0]

MarkDone(i) == [kind |-> "Done", index |-> i, waiter |-> 0]

MarkWait(i, c) == [kind |-> "Wait", index |-> i, waiter |-> c]

InitWM ==
    /\ wm_ch = <<>>
    /\ wm_done_until = 0
    /\ wm_last_index = 0
    /\ wm_pending = EmptyMap
    /\ wm_heap = {}
    /\ wm_waiters = EmptyMap
    /\ wm_task = "running"
    /\ wm_notified = [c \in Callers |-> FALSE]
    /\ wm_caller = [c \in Callers |-> "idle"]
    /\ wm_wait_index = [c \in Callers |-> 0]
    /\ wm_sent_begin = [i \in Indices |-> 0]
    /\ wm_sent_done = [i \in Indices |-> 0]

RECURSIVE SumOver(_, _)
SumOver(f, S) ==
    IF S = {} THEN 0
    ELSE LET x == CHOOSE y \in S : TRUE IN f[x] + SumOver(f, S \ {x})

\* the number of begin and done calls made so far
MarksSent == SumOver(wm_sent_begin, Indices) + SumOver(wm_sent_done, Indices)

\* the number of commands of a kind and index still in the channel
InChannel(kind, i) ==
    Cardinality({n \in 1..Len(wm_ch) : wm_ch[n].kind = kind /\ wm_ch[n].index = i})

\* the number of Begin(i) and Done(i) commands the consumer has processed
ProcBegin(i) == wm_sent_begin[i] - InChannel("Begin", i)

ProcDone(i) == wm_sent_done[i] - InChannel("Done", i)

\* process_one: let delta = if done { 1 } else { -1 }
Delta(done) == IF done THEN 1 ELSE -1

\* process_one: the update of pending for the processed index
PendingAfter(pending, index, done) ==
    IF index \in DOMAIN pending
    THEN [pending EXCEPT ![index] = @ + Delta(done)]
    ELSE MapPut(pending, index, Delta(done))

\* process_one: heap.push(Reverse(index)) when pending had no entry for index
HeapAfter(heap, pending, index) ==
    IF index \in DOMAIN pending THEN heap ELSE heap \cup {index}

AssertAlwaysPasses(done_until, index) == TRUE

\* process_one: assert!(done_until <= index, ...)
AssertDoneUntil(done_until, index) == done_until <= index

\* process_one: while !heap.is_empty() { min = heap.peek(); if pending[min] is
\* positive { break } heap.pop(); pending.remove(min); until = min }
RECURSIVE PopLoop(_, _, _)
PopLoop(heap, pending, until) ==
    IF heap = {} THEN [heap |-> heap, pending |-> pending, until |-> until]
    ELSE LET min == SetMin(heap) IN
         IF pending[min] > 0
         THEN [heap |-> heap, pending |-> pending, until |-> until]
         ELSE PopLoop(heap \ {min}, MapRemove(pending, min), min)

\* process_one, first branch: for idx in done_until + 1..=until, notify and
\* remove the waiters registered at idx
NotifyRange(waiters, notified, lo, hi) ==
    LET hit == {idx \in DOMAIN waiters : lo <= idx /\ idx <= hi}
        woken == UNION {waiters[idx] : idx \in hit}
    IN [waiters |-> [x \in (DOMAIN waiters) \ hit |-> waiters[x]],
        notified |-> [c \in Callers |-> notified[c] \/ c \in woken],
        panic |-> FALSE]

\* process_one, second branch: for idx in 0..min(waiters.len(), until + 1)
\* { waiters.get(&idx).unwrap() ... }: an index that is no key of waiters
\* panics on the unwrap
RECURSIVE NotifyByPosition(_, _, _, _)
NotifyByPosition(waiters, notified, idx, end) ==
    IF idx >= end THEN [waiters |-> waiters, notified |-> notified, panic |-> FALSE]
    ELSE IF idx \notin DOMAIN waiters
         THEN [waiters |-> waiters, notified |-> notified, panic |-> TRUE]
         ELSE NotifyByPosition(MapRemove(waiters, idx),
                               [c \in Callers |-> notified[c] \/ c \in waiters[idx]],
                               idx + 1, end)

\* process_one: the notification of the waiters after done_until has moved
\* from done_until to until
NotifyWaiters(waiters, notified, done_until, until) ==
    IF until - done_until <= Cardinality(DOMAIN waiters)
    THEN NotifyRange(waiters, notified, done_until + 1, until)
    ELSE NotifyByPosition(waiters, notified, 0,
                          Min2(Cardinality(DOMAIN waiters), until + 1))

\* The closure process_one(index, done, waiters) as one step of the consumer.
ProcessOne(index, done) ==
    LET pending1 == PendingAfter(wm_pending, index, done)
        heap1 == HeapAfter(wm_heap, wm_pending, index)
        done_until == wm_done_until
    IN IF ~AssertDoneUntil(done_until, index)
       THEN /\ wm_task' = "panicked"
            /\ wm_pending' = pending1
            /\ wm_heap' = heap1
            /\ UNCHANGED <<wm_done_until, wm_waiters, wm_notified>>
       ELSE LET popped == PopLoop(heap1, pending1, done_until)
                until == popped.until
                res == NotifyWaiters(wm_waiters, wm_notified, done_until, until)
            IN /\ wm_pending' = popped.pending
               /\ wm_heap' = popped.heap
               /\ wm_done_until' = until
               /\ wm_waiters' = res.waiters
               /\ wm_notified' = res.notified
               /\ wm_task' = IF res.panic THEN "panicked" ELSE "running"

\* WaterMark::begin
WmBegin(i) ==
    /\ Len(wm_ch) < MARK_CHANNEL_CAPACITY
    /\ Len(wm_ch) < MaxInFlight
    /\ MarksSent < MaxMarks
    /\ wm_last_index' = i
    /\ wm_ch' = Append(wm_ch, MarkBegin(i))
    /\ wm_sent_begin' = [wm_sent_begin EXCEPT ![i] = @ + 1]
    /\ UNCHANGED <<wm_done_until, wm_pending, wm_heap, wm_waiters, wm_task,
                   wm_notified, wm_caller, wm_wait_index, wm_sent_done>>
    /\ UNCHANGED not_wm_vars

\* WaterMark::done; the callers call begin(i) before done(i)
WmDone(i) ==
    /\ Len(wm_ch) < MARK_CHANNEL_CAPACITY
    /\ Len(wm_ch) < MaxInFlight
    /\ MarksSent < MaxMarks
    /\ wm_sent_done[i] < wm_sent_begin[i]
    /\ wm_ch' = Append(wm_ch, MarkDone(i))
    /\ wm_sent_done' = [wm_sent_done EXCEPT ![i] = @ + 1]
    /\ UNCHANGED <<wm_done_until, wm_last_index, wm_pending, wm_heap, wm_waiters,
                   wm_task, wm_notified, wm_caller, wm_wait_index, wm_sent_begin>>
    /\ UNCHANGED not_wm_vars

\* WaterMark::wait_for_mark up to the await of the notification
WmWaitForMark(c, i) ==
    /\ wm_caller[c] = "idle"
    /\ \A d \in Callers : d < c => wm_caller[d] # "idle"
    /\ wm_wait_index' = [wm_wait_index EXCEPT ![c] = i]
    /\ IF wm_done_until >= i
       THEN /\ wm_caller' = [wm_caller EXCEPT ![c] = "returned"]
            /\ UNCHANGED wm_ch
       ELSE /\ Len(wm_ch) < MARK_CHANNEL_CAPACITY
            /\ Len(wm_ch) < MaxInFlight
            /\ wm_caller' = [wm_caller EXCEPT ![c] = "waiting"]
            /\ wm_ch' = Append(wm_ch, MarkWait(i, c))
    /\ UNCHANGED <<wm_done_until, wm_last_index, wm_pending, wm_heap, wm_waiters,
                   wm_task, wm_notified, wm_sent_begin, wm_sent_done>>
    /\ UNCHANGED not_wm_vars

\* WaterMark::wait_for_mark: wait.notified().await completes
WmWaitReturn(c) ==
    /\ wm_caller[c] = "waiting"
    /\ wm_notified[c]
    /\ wm_caller' = [wm_caller EXCEPT ![c] = "returned"]
    /\ UNCHANGED <<wm_ch, wm_done_until, wm_last_index, wm_pending, wm_heap,
                   wm_waiters, wm_task, wm_notified, wm_wait_index,
                   wm_sent_begin, wm_sent_done>>
    /\ UNCHANGED not_wm_vars

\* WaterMark::process: one turn of the loop, on the command at the head of
\* the channel
WmProcess ==
    /\ wm_task = "running"
    /\ wm_ch # <<>>
    /\ LET mark == Head(wm_ch) IN
       /\ wm_ch' = Tail(wm_ch)
       /\ CASE mark.kind = "Begin" ->
                 /\ ProcessOne(mark.index, FALSE)
            [] mark.kind = "Done" ->
                 /\ ProcessOne(mark.index, TRUE)
            [] mark.kind = "Wait" ->
                 /\ IF wm_done_until >= mark.index
                    THEN /\ wm_notified' = [wm_notified EXCEPT ![mark.waiter] = TRUE]
                         /\ UNCHANGED wm_waiters
                    ELSE /\ wm_waiters' =
                              IF mark.index \in DOMAIN wm_waiters
                              THEN [wm_waiters EXCEPT ![mark.index] = @ \cup {mark.waiter}]
                              ELSE MapPut(wm_waiters, mark.index, {mark.waiter})
                         /\ UNCHANGED wm_notified
                 /\ UNCHANGED <<wm_done_until, wm_pending, wm_heap, wm_task>>
    /\ UNCHANGED <<wm_last_index, wm_caller, wm_wait_index, wm_sent_begin, wm_sent_done>>
    /\ UNCHANGED not_wm_vars

NextWM ==
    \/ \E i \in Indices : WmBegin(i)
    \/ \E i \in Indices : WmDone(i)
    \/ \E c \in Callers, i \in Indices : WmWaitForMark(c, i)
    \/ \E c \in Callers : WmWaitReturn(c)
    \/ WmProcess


(***************************************************************************)
(* Entries and keys (src/src/entry.rs, src/src/txn/txn.rs).  A key and a   *)
(* value are sequences of bytes.                                           *)
(***************************************************************************)

\* txn.rs: BADGER_PREFIX = b"!badger!"
BADGER_PREFIX == <<33, 98, 97, 100, 103, 101, 114, 33>>

\* txn.rs: TXN_KEY = b"!badger!txn"
TXN_KEY == BADGER_PREFIX \o <<116, 120, 110>>

\* entry.rs: Meta::DELETE = 1 << 0
META_DELETE == 1

\* Meta::contains for a single flag of the bitset
MetaContains(meta, flag) == (meta \div flag) % 2 = 1

\* Bytes::starts_with
StartsWith(key, prefix) ==
    /\ Len(key) >= Len(prefix)
    /\ \A n \in 1..Len(prefix) : key[n] = prefix[n]

\* Entry::new(key, value)
EntryNew(key, value) ==
    [key |-> key, value |-> value, expires_at |-> 0, meta |-> 0, value_threshold |-> 0]

\* Entry::delete(key)
EntryDelete(key) ==
    [key |-> key, value |-> <<>>, expires_at |-> 0, meta |-> META_DELETE,
     value_threshold |-> 0]

\* entry.rs: is_deleted_or_expired, with now the seconds since the epoch
IsDeletedOrExpired(meta, expires_at, now) ==
    IF MetaContains(meta, META_DELETE) THEN TRUE
    ELSE IF expires_at = 0 THEN FALSE
    ELSE expires_at <= now

\* Entry::estimate_size_and_set_threshold: the threshold the entry keeps
ThresholdAfter(e, threshold) ==
    IF e.value_threshold = 0 THEN threshold ELSE e.value_threshold

\* Entry::estimate_size_and_set_threshold: the estimate it returns
EstimateSize(e, threshold) ==
    IF Len(e.value) < ThresholdAfter(e, threshold)
    THEN Len(e.key) + Len(e.value) + 2
    ELSE Len(e.key) + 12 + 2

\* util/hash.rs: mem_hash, a 64-bit hash of the bytes, as a hash of the
\* bytes into a small space (two keys may collide)
MemHash(key) == SumOver(key, DOMAIN key) % HashSpace

\* the big-endian u64 read from 8 bytes
RECURSIVE FromBeBytes(_)
FromBeBytes(bs) ==
    IF bs = <<>> THEN 0 ELSE FromBeBytes(SubSeq(bs, 1, Len(bs) - 1)) * 256 + bs[Len(bs)]

\* DBInner::is_banned: TRUE when it returns BannedKey
IsBanned(key, namespace_offset, banned_namespaces) ==
    IF namespace_offset < 0 THEN FALSE
    ELSE IF Len(key) <= namespace_offset + 8 THEN FALSE
    ELSE FromBeBytes(SubSeq(key, namespace_offset + 1, namespace_offset + 8)) \in banned_namespaces

(***************************************************************************)
(* Oracle and transactions (src/src/txn/oracle.rs, src/src/txn/txn.rs,     *)
(* src/src/db.rs).                                                         *)
(***************************************************************************)
Txns == 1..NumTxns

KeyA == <<107>>

KeyB == <<107, 50>>

\* the keys the callers use: empty, plain, reserved
Keys == {<<>>, KeyA, KeyB, BADGER_PREFIX \o <<120>>}

\* the values the callers use
Values == {<<118>>}

\* the entries given to set_entry: a tombstone, an entry that has expired at
\* every time of a get, an entry that expires after all of them
EntriesGiven ==
    {[EntryNew(KeyA, <<119>>) EXCEPT !.meta = META_DELETE],
     [EntryNew(KeyA, <<119>>) EXCEPT !.expires_at = 1],
     [EntryNew(KeyA, <<119>>) EXCEPT !.expires_at = MaxTime + 1]}

\* Options::default(); max_batch_size is the field check_size reads as
\* opt.max_batch_size, declared with a default of 0
DefaultOptions ==
    [detect_conflicts |-> TRUE, max_batch_size |-> 0,
     value_threshold |-> MAX_VALUE_THRESHOLD,
     value_log_file_size |-> VALUE_LOG_FILE_SIZE,
     namespace_offset |-> NAMESPACE_OFFSET]

\* the Options a DB is opened with: the default ones, under which every
\* write is TxnTooBig, and two with a batch size that admits writes
OptionsGiven ==
    {DefaultOptions,
     [DefaultOptions EXCEPT !.max_batch_size = 35],
     [DefaultOptions EXCEPT !.max_batch_size = 1000, !.value_threshold = 1,
                            !.detect_conflicts = FALSE]}

\* Txn::new, before new_transaction has handed the transaction out
NoTxn ==
    [state |-> "none", update |-> FALSE, read_ts |-> 0, size |-> 0, count |-> 0,
     discarded |-> FALSE, done_read |-> FALSE, pending_writes |-> EmptyMap,
     conflict_keys |-> {}]

\* no call made yet
NoCall ==
    [txn |-> 0, op |-> "none", key |-> <<>>, value |-> <<>>, meta |-> 0,
     expires_at |-> 0, result |-> "none", got |-> <<>>, db_read |-> FALSE]

\* DB::open: next_txn_ts = max_version, then incre_next_ts
InitTxn ==
    /\ opt \in OptionsGiven
    /\ orc_next_txn_ts \in {v + 1 : v \in 0..MaxVersion}
    /\ banned = {}
    /\ in_runtime \in BOOLEAN
    /\ txn = [t \in Txns |-> NoTxn]
    /\ rm_log = <<>>
    /\ txn_last = NoCall
    /\ txn_writes = [t \in Txns |-> <<>>]
    /\ txn_reads = [t \in Txns |-> {}]
    /\ commit_log = <<>>
    /\ commit_result = [t \in Txns |-> "none"]
    /\ commit_ts = [t \in Txns |-> 0]
    /\ txn_calls = 0

\* the txn watermark's done_until: WaterMark::new leaves it at its default,
\* and nothing begins or finishes an index on the txn watermark
TxnMarkDoneUntil == 0

\* Oracle::read_ts: let read_ts = txnx.next_txn_ts - 1
ReadTs == orc_next_txn_ts - 1

\* DB::new_transaction: Txn::new, then Oracle::read_ts (Begin(read_ts) to the
\* read watermark, then the wait on the txn watermark), then set_read_ts.  A
\* caller whose wait never ends stays blocked and is handed no transaction.
NewTransaction(t, update) ==
    /\ txn[t].state = "none"
    /\ \A u \in Txns : u < t => txn[u].state # "none"
    /\ txn_calls < MaxCalls
    /\ rm_log' = Append(rm_log, [kind |-> "Begin", index |-> ReadTs, txn |-> t])
    /\ txn' = [txn EXCEPT ![t] =
                 [NoTxn EXCEPT !.update = update,
                               !.size = Len(TXN_KEY) + 10,
                               !.count = 1,
                               !.state = IF TxnMarkDoneUntil >= ReadTs
                                         THEN "live" ELSE "blocked",
                               !.read_ts = IF TxnMarkDoneUntil >= ReadTs
                                           THEN ReadTs ELSE 0]]
    /\ txn_calls' = txn_calls + 1
    /\ UNCHANGED <<opt, orc_next_txn_ts, banned, in_runtime,
                   txn_last, txn_writes, txn_reads,
                   commit_log, commit_result, commit_ts>>
    /\ UNCHANGED not_txn_vars

SizeTooBigStrict(size, max_batch_size) == size > max_batch_size

\* Txn::check_size: if size >= self.db.opt.max_batch_size
SizeTooBig(size, max_batch_size) == size >= max_batch_size

\* Txn::check_size: let size = self.size + e.estimate_size_and_set_threshold(..) + 10
SizeAfter(tx, e) == tx.size + EstimateSize(e, opt.value_threshold) + 10

\* Txn::modify: the error it returns, or Ok
ModifyResult(tx, e) ==
    IF ~tx.update THEN "ReadOnlyTxn"
    ELSE IF tx.discarded THEN "DiscardedTxn"
    ELSE IF Len(e.key) = 0 THEN "EmptyKey"
    ELSE IF StartsWith(e.key, BADGER_PREFIX) THEN "InvalidKey"
    ELSE IF Len(e.key) > MAX_KEY_SIZE THEN "ExceedsSize"
    ELSE IF Len(e.value) > opt.value_log_file_size THEN "ExceedsSize"
    ELSE IF IsBanned(e.key, opt.namespace_offset, banned) THEN "BannedKey"
    ELSE IF SizeTooBig(SizeAfter(tx, e), opt.max_batch_size) THEN "TxnTooBig"
    ELSE "Ok"

InsertPendingKeepFirst(pending, key, e) ==
    IF key \in DOMAIN pending THEN pending ELSE MapPut(pending, key, e)

\* Txn::modify: self.pending_writes.insert(e.key().clone(), e)
InsertPending(pending, key, e) == MapPut(pending, key, e)

CheckSizeEager(tx, e) == [tx EXCEPT !.count = @ + 1, !.size = SizeAfter(tx, e)]

\* Txn::check_size: the transaction after it; count and size are assigned
\* after the test of the size
CheckSize(tx, e) ==
    IF SizeTooBig(SizeAfter(tx, e), opt.max_batch_size) THEN tx
    ELSE [tx EXCEPT !.count = @ + 1, !.size = SizeAfter(tx, e)]

\* Txn::modify on a transaction that passed every check
TxnAfterModify(tx, e) ==
    LET e1 == [e EXCEPT !.value_threshold = ThresholdAfter(e, opt.value_threshold)]
    IN [CheckSize(tx, e) EXCEPT
                  !.conflict_keys = IF opt.detect_conflicts
                                    THEN @ \cup {MemHash(e.key)} ELSE @,
                  !.pending_writes = InsertPending(@, e.key, e1)]

\* Txn::set, Txn::delete and Txn::set_entry: all three are Txn::modify
Modify(t, op, e) ==
    /\ txn[t].state = "live"
    /\ txn_calls < MaxCalls
    /\ LET result == ModifyResult(txn[t], e) IN
       /\ txn' = IF result = "Ok" THEN [txn EXCEPT ![t] = TxnAfterModify(@, e)]
                 ELSE IF result = "TxnTooBig" THEN [txn EXCEPT ![t] = CheckSize(@, e)]
                 ELSE txn
       /\ txn_writes' = IF result = "Ok"
                        THEN [txn_writes EXCEPT ![t] =
                                Append(@, [op |-> op, key |-> e.key, value |-> e.value])]
                        ELSE txn_writes
       /\ txn_last' = [NoCall EXCEPT !.txn = t, !.op = op, !.key = e.key,
                                     !.value = e.value, !.meta = e.meta,
                                     !.expires_at = e.expires_at, !.result = result]
    /\ txn_calls' = txn_calls + 1
    /\ UNCHANGED <<opt, orc_next_txn_ts, banned, in_runtime,
                   rm_log, txn_reads, commit_log,
                   commit_result, commit_ts>>
    /\ UNCHANGED not_txn_vars

\* Txn::get: the pending write it answers from, when there is one
HasPending(tx, key) ==
    /\ tx.update
    /\ key \in DOMAIN tx.pending_writes
    /\ tx.pending_writes[key].key = key

\* Txn::get: what it returns; add_read_key and DBInner::get are todo!() and
\* panic
GetResult(tx, key, now) ==
    IF tx.discarded THEN "DiscardedTxn"
    ELSE IF Len(key) = 0 THEN "EmptyKey"
    ELSE IF IsBanned(key, opt.namespace_offset, banned) THEN "BannedKey"
    ELSE IF HasPending(tx, key)
         THEN IF IsDeletedOrExpired(tx.pending_writes[key].meta,
                                    tx.pending_writes[key].expires_at, now)
              THEN "KeyNotFound" ELSE "Ok"
    ELSE "Panic"

\* Txn::get: reaches add_read_key
ReachesAddReadKey(tx, key) ==
    /\ ~tx.discarded
    /\ Len(key) # 0
    /\ ~IsBanned(key, opt.namespace_offset, banned)
    /\ tx.update
    /\ ~HasPending(tx, key)

\* Txn::get: reaches self.db.get
ReachesDbGet(tx, key) ==
    /\ ~tx.discarded
    /\ Len(key) # 0
    /\ ~IsBanned(key, opt.namespace_offset, banned)
    /\ ~tx.update

\* Txn::get; Item::from_entry copies the value of the pending entry
Get(t, key, now) ==
    /\ txn[t].state = "live"
    /\ txn_calls < MaxCalls
    /\ LET result == GetResult(txn[t], key, now) IN
       txn_last' = [NoCall EXCEPT !.txn = t, !.op = "get", !.key = key,
                                  !.result = result,
                                  !.got = IF result = "Ok"
                                          THEN txn[t].pending_writes[key].value
                                          ELSE <<>>,
                                  !.db_read = ReachesDbGet(txn[t], key)]
    /\ txn_reads' = IF ReachesAddReadKey(txn[t], key)
                    THEN [txn_reads EXCEPT ![t] = @ \cup {key}] ELSE txn_reads
    /\ txn_calls' = txn_calls + 1
    /\ UNCHANGED <<opt, orc_next_txn_ts, banned, in_runtime,
                   txn, rm_log, txn_writes, commit_log,
                   commit_result, commit_ts>>
    /\ UNCHANGED not_txn_vars

\* Txn::discard on the fields of a transaction
TxnAfterDiscard(tx) ==
    IF tx.discarded THEN tx
    ELSE [tx EXCEPT !.discarded = TRUE, !.done_read = TRUE]

\* Txn::discard: the Done(read_ts) it sends to the read watermark, unless
\* Runtime::block_on panics before the Done is sent
MarksAfterDiscard(t, tx) ==
    IF tx.discarded \/ tx.done_read \/ in_runtime THEN rm_log
    ELSE Append(rm_log, [kind |-> "Done", index |-> tx.read_ts, txn |-> t])

\* Txn::discard, called by the owner of the transaction
Discard(t) ==
    /\ txn[t].state = "live"
    /\ txn' = [txn EXCEPT ![t] = TxnAfterDiscard(@)]
    /\ rm_log' = MarksAfterDiscard(t, txn[t])
    /\ UNCHANGED <<opt, orc_next_txn_ts, banned, in_runtime,
                   txn_last, txn_writes, txn_reads,
                   commit_log, commit_result, commit_ts, txn_calls>>
    /\ UNCHANGED not_txn_vars

\* impl Drop for Txn: discard, and the transaction is gone
DropTxn(t) ==
    /\ txn[t].state = "live"
    /\ txn' = [txn EXCEPT ![t] = [TxnAfterDiscard(@) EXCEPT !.state = "dropped"]]
    /\ rm_log' = MarksAfterDiscard(t, txn[t])
    /\ UNCHANGED <<opt, orc_next_txn_ts, banned, in_runtime,
                   txn_last, txn_writes, txn_reads,
                   commit_log, commit_result, commit_ts, txn_calls>>
    /\ UNCHANGED not_txn_vars

\* Txn::commit(self): unimplemented!() panics, and the unwinding drops the
\* transaction
Commit(t) ==
    /\ txn[t].state = "live"
    /\ commit_log' = Append(commit_log, t)
    /\ commit_result' = [commit_result EXCEPT ![t] = "Panic"]
    /\ txn' = [txn EXCEPT ![t] = [TxnAfterDiscard(@) EXCEPT !.state = "dropped"]]
    /\ rm_log' = MarksAfterDiscard(t, txn[t])
    /\ UNCHANGED <<opt, orc_next_txn_ts, banned, in_runtime,
                   txn_last, txn_writes, txn_reads,
                   commit_ts, txn_calls>>
    /\ UNCHANGED not_txn_vars

TxnSet(t, k, v) == Modify(t, "set", EntryNew(k, v))

TxnDelete(t, k) == Modify(t, "delete", EntryDelete(k))

TxnSetEntry(t, e) == Modify(t, "set_entry", e)

NextTxn ==
    \/ \E t \in Txns, update \in BOOLEAN : NewTransaction(t, update)
    \/ \E t \in Txns, k \in Keys, v \in Values : TxnSet(t, k, v)
    \/ \E t \in Txns, k \in Keys : TxnDelete(t, k)
    \/ \E t \in Txns, e \in EntriesGiven : TxnSetEntry(t, e)
    \/ \E t \in Txns, k \in Keys, now \in 1..MaxTime : Get(t, k, now)
    \/ \E t \in Txns : Discard(t)
    \/ \E t \in Txns : DropTxn(t)
    \/ \E t \in Txns : Commit(t)

(***************************************************************************)
(* The write loop (src/src/write.rs).                                      *)
(***************************************************************************)
Reqs == 1..MaxReqs

\* a request the callers have not made yet
NoReq ==
    [place |-> "unsent", entries |-> 0, result |-> "Ok", batch |-> "none",
     reply |-> "none"]

\* DB::open: block_writes false, the write channel empty, do_writes spawned:
\* it makes its Notify and calls notify_one on it before its loop
InitWrite ==
    /\ wr_block_writes = FALSE
    /\ wr_ch = <<>>
    /\ wr_buf = <<>>
    /\ wr_permit = TRUE
    /\ wr_loop = "outer"
    /\ wr_running = {}
    /\ wr_req = [r \in Reqs |-> NoReq]

\* DB::send_to_write_tx: BlockedWrites, or a request with a fresh one-shot
\* channel sent on the write channel
SendToWriteTx(r, n) ==
    /\ wr_req[r].place = "unsent"
    /\ \A q \in Reqs : q < r => wr_req[q].place # "unsent"
    /\ IF wr_block_writes
       THEN /\ wr_req' = [wr_req EXCEPT ![r] = [@ EXCEPT !.place = "refused"]]
            /\ UNCHANGED wr_ch
       ELSE /\ Len(wr_ch) < KV_WRITE_CH_CAPACITY
            /\ wr_req' = [wr_req EXCEPT ![r] =
                            [NoReq EXCEPT !.place = "channel", !.entries = n,
                                          !.reply = "pending"]]
            /\ wr_ch' = Append(wr_ch, r)
    /\ UNCHANGED <<wr_block_writes, wr_buf, wr_permit, wr_loop, wr_running>>
    /\ UNCHANGED not_wr_vars

\* the requests of a sequence are in place p
Moved(reqs, p) ==
    [r \in Reqs |-> IF \E n \in 1..Len(reqs) : reqs[n] = r
                    THEN [wr_req[r] EXCEPT !.place = p] ELSE wr_req[r]]

\* do_writes: Some(req) = write_rx.recv() at either select, the push and the
\* test at the top of the inner loop: a buffer of 3 * KV_WRITE_CH_CAPACITY
\* requests is handed to write_reqs at once (notify_recv.notified() without
\* an await waits for nothing)
DoWritesRecv ==
    /\ wr_ch # <<>>
    /\ wr_ch' = Tail(wr_ch)
    /\ LET buf == Append(wr_buf, Head(wr_ch)) IN
       IF Len(buf) >= 3 * KV_WRITE_CH_CAPACITY
       THEN /\ wr_running' = wr_running \cup {buf}
            /\ wr_buf' = <<>>
            /\ wr_loop' = "outer"
            /\ wr_req' = Moved(buf, "batch")
       ELSE /\ wr_buf' = buf
            /\ wr_loop' = "inner"
            /\ wr_req' = Moved(<<Head(wr_ch)>>, "buf")
            /\ UNCHANGED wr_running
    /\ UNCHANGED <<wr_block_writes, wr_permit>>
    /\ UNCHANGED not_wr_vars

\* do_writes: notify_recv.notified() at the inner select takes the permit,
\* and the buffer is handed to a spawned write_reqs
DoWritesNotified ==
    /\ wr_loop = "inner"
    /\ wr_permit
    /\ wr_permit' = FALSE
    /\ wr_running' = wr_running \cup {wr_buf}
    /\ wr_buf' = <<>>
    /\ wr_loop' = "outer"
    /\ wr_req' = Moved(wr_buf, "batch")
    /\ UNCHANGED <<wr_block_writes, wr_ch>>
    /\ UNCHANGED not_wr_vars

\* ValueLog::write: validate_writes calls estimate_request_size on the first
\* request, which is todo!()
ValueLogWrite(reqs) == IF Len(reqs) = 0 THEN "Ok" ELSE "Panic"

\* DB::write_requests: Ok for no requests; else what the value log write
\* ends with (the puts in the memtable follow a value log write that
\* returned Ok)
WriteRequests(reqs) == IF Len(reqs) = 0 THEN "Ok" ELSE ValueLogWrite(reqs)

\* DB::write_requests, the closure done: an error is stored in the result
\* field of every request of the batch
ResultAfter(result, outcome) == IF outcome = "Err" THEN "Err" ELSE result

\* what the one-shot channel of a request holds once the request has been
\* dropped: nothing is sent on result_tx, so the channel is closed
ReplyAfter(reply, outcome) == "closed"

\* write_reqs, spawned by do_writes: write_requests on the batch, the batch
\* dropped at its end, then notify_send.notify_one() unless write_requests
\* panicked
WriteReqs(reqs) ==
    /\ reqs \in wr_running
    /\ wr_running' = wr_running \ {reqs}
    /\ LET outcome == WriteRequests(reqs) IN
       /\ wr_req' = [r \in Reqs |->
                       IF \E n \in 1..Len(reqs) : reqs[n] = r
                       THEN [wr_req[r] EXCEPT
                               !.place = "dropped",
                               !.batch = outcome,
                               !.result = ResultAfter(@, outcome),
                               !.reply = ReplyAfter(@, outcome)]
                       ELSE wr_req[r]]
       /\ wr_permit' = IF outcome = "Panic" THEN wr_permit ELSE TRUE
    /\ UNCHANGED <<wr_block_writes, wr_ch, wr_buf, wr_loop>>
    /\ UNCHANGED not_wr_vars

NextWrite ==
    \/ \E r \in Reqs, n \in 0..MaxEntries : SendToWriteTx(r, n)
    \/ DoWritesRecv
    \/ DoWritesNotified
    \/ \E reqs \in wr_running : WriteReqs(reqs)

(***************************************************************************)
(* The memtable and its WAL (src/src/memtable.rs).  A frame is one encoded *)
(* entry: header, key, value, CRC.  The key of a frame is a user key and   *)
(* the timestamp of its 8-byte suffix.                                     *)
(***************************************************************************)

ParseTsOfFirst(key) == 1

\* util/mod.rs: parse_ts, on a key that ends with the suffix of ts
ParseTs(key) == key.ts

\* String::from_utf8(value) and str::parse::<u64>: the number written in
\* decimal digits, -1 when the bytes are no such number
RECURSIVE ParseDecimal(_)
ParseDecimal(bs) ==
    IF Len(bs) = 0 THEN -1
    ELSE IF bs[Len(bs)] < 48 \/ bs[Len(bs)] > 57 THEN -1
    ELSE IF Len(bs) = 1 THEN bs[1] - 48
    ELSE LET hi == ParseDecimal(SubSeq(bs, 1, Len(bs) - 1))
         IN IF hi < 0 THEN -1 ELSE hi * 10 + (bs[Len(bs)] - 48)

\* Header::encode: meta, user_meta and three varints of one byte each for
\* the lengths and expiry of the frames below
HeaderLen == 5

\* LogFile::iterate: vp.len = header_len + key.len() + value.len() + CRC_SIZE
FrameLen(f) == HeaderLen + (Len(f.key.user) + 8) + Len(f.value) + CRC_SIZE

\* the frames found in a WAL: plain entries, entries of a transaction, the
\* end of a transaction, an end of a transaction whose value is no number
WalFrames ==
    {[meta |-> m, key |-> [user |-> KeyA, ts |-> ts], value |-> <<118>>] :
        m \in {0, BIT_TXN}, ts \in 1..MaxTs}
    \cup {[meta |-> BIT_FIN_TXN, key |-> [user |-> TXN_KEY, ts |-> ts],
           value |-> <<48 + ts>>] : ts \in 1..MaxTs}
    \cup {[meta |-> BIT_FIN_TXN, key |-> [user |-> TXN_KEY, ts |-> 1],
           value |-> <<120>>]}

FrameSeqs == UNION {[1..n -> WalFrames] : n \in 0..MaxFrames}

\* what follows the last frame: the end of the file; the zeroes of a file
\* longer than its frames; a frame cut inside its header varints; a frame
\* cut inside its key, value or CRC; a whole frame whose CRC does not match
Tails == {"end", "zeros", "cut_header", "cut_body", "bad_crc"}

\* the bytes of each tail
TailLen(tail) ==
    CASE tail = "end" -> 0
      [] tail = "zeros" -> 22
      [] tail = "cut_header" -> 3
      [] tail = "cut_body" -> 7
      [] tail = "bad_crc" -> 19

RECURSIVE FramesLen(_)
FramesLen(frames) ==
    IF frames = <<>> THEN 0 ELSE FrameLen(Head(frames)) + FramesLen(Tail(frames))

\* a .mem file with these frames and this tail
WalFile(frames, tail) ==
    [exists |-> TRUE, frames |-> frames, tail |-> tail,
     size |-> VLOG_HEADER_SIZE + FramesLen(frames) + TailLen(tail)]

NoMemTable ==
    [state |-> "none", via |-> "none", is_new |-> FALSE, sl |-> EmptyMap,
     max_version |-> 0, size |-> 0, error |-> "none"]

InitWal ==
    /\ \E frames \in FrameSeqs, tail \in Tails : wal_disk = WalFile(frames, tail)
    /\ wal_orig = wal_disk
    /\ wal_mt = NoMemTable

\* LogFile::entry past the last frame: Header::decode_from and the
\* read_exact calls give VLogTruncate at the end of the input and on a CRC
\* that does not match (the CRC of a zeroed header is not zero); read_varint
\* at the end of the input gives an error that is no VLogTruncate
EntryAtTail(tail) == IF tail = "cut_header" THEN "Error" ELSE "VLogTruncate"

\* LogFile::iterate from frame n on: offset is the offset of frame n,
\* entries the frames of the transaction being read, applied the frames
\* handed to f so far
RECURSIVE IterateLoop(_, _, _, _, _, _, _, _)
IterateLoop(frames, tail, n, offset, last_commit, valid_end_offset, entries, applied) ==
    LET stop == [result |-> "Ok", end_off |-> valid_end_offset, applied |-> applied]
    IN
    IF n > Len(frames)
    THEN IF EntryAtTail(tail) = "Error"
         THEN [result |-> "Error", end_off |-> 0, applied |-> applied]
         ELSE stop
    ELSE LET ent == frames[n]
             off == offset + FrameLen(ent)
         IN
         IF MetaContains(ent.meta, BIT_TXN)
         THEN LET txn_ts == ParseTs(ent.key)
                  lc == IF last_commit = 0 THEN txn_ts ELSE last_commit
              IN IF lc # txn_ts THEN stop
                 ELSE IterateLoop(frames, tail, n + 1, off, lc, valid_end_offset,
                                  Append(entries, ent), applied)
         ELSE IF MetaContains(ent.meta, BIT_FIN_TXN)
         THEN LET txn_ts == ParseDecimal(ent.value)
              IN IF txn_ts < 0 \/ last_commit # txn_ts THEN stop
                 ELSE IterateLoop(frames, tail, n + 1, off, 0, off, <<>>,
                                  applied \o entries)
         ELSE IF last_commit # 0 THEN stop
              ELSE IterateLoop(frames, tail, n + 1, off, 0, off, entries,
                               Append(applied, ent))

IterateFromZero(file) ==
    IterateLoop(file.frames, file.tail, 1, 0, 0, 0, <<>>, <<>>)

\* LogFile::iterate(0, f): offset 0 is VLOG_HEADER_SIZE, valid_end_offset
\* starts at 0
Iterate(file) ==
    IterateLoop(file.frames, file.tail, 1, VLOG_HEADER_SIZE, 0, 0, <<>>, <<>>)

\* MemTable::replay_func over the entries handed to it, in order
RECURSIVE Replay(_, _)
Replay(applied, mt) ==
    IF applied = <<>> THEN mt
    ELSE LET e == Head(applied)
             ts == ParseTs(e.key)
         IN Replay(Tail(applied),
                   [mt EXCEPT !.max_version = IF ts > @ THEN ts ELSE @,
                              !.sl = MapPut(@, e.key,
                                            [meta |-> e.meta, value |-> e.value])])

\* the file cut to offset bytes by LogFile::truncate
TruncatedTo(file, offset) ==
    IF file.size = offset THEN file
    ELSE [file EXCEPT !.size = offset, !.tail = "end"]

\* MemTable::update_skip_list on a memtable whose LogFile maps file: the
\* memtable after it
UpdateSkipListMt(mt, file) ==
    LET it == Iterate(file)
        replayed == Replay(it.applied, mt)
    IN IF it.result = "Error"
       THEN [replayed EXCEPT !.state = "failed", !.error = "Iterate"]
       ELSE IF it.end_off < mt.size
       THEN [replayed EXCEPT !.state = "failed", !.error = "TruncateNeeded"]
       ELSE [replayed EXCEPT !.state = "open", !.size = it.end_off]

\* MemTable::update_skip_list: the file after it
UpdateSkipListFile(mt, file) ==
    LET it == Iterate(file)
    IN IF it.result = "Error" \/ it.end_off < mt.size THEN file
       ELSE TruncatedTo(file, it.end_off)

\* open_mmap_file: OpenOptions::truncate(true) empties the file that is
\* there; an empty file is grown to sz bytes and taken for a new file
OpenMmapFile(file, sz) ==
    LET emptied == [file EXCEPT !.exists = TRUE, !.frames = <<>>, !.tail = "end",
                                !.size = 0]
    IN IF sz > 0 /\ emptied.size = 0
       THEN [file |-> [emptied EXCEPT !.size = sz, !.tail = "zeros"], is_new |-> TRUE]
       ELSE [file |-> emptied, is_new |-> FALSE]

\* LogFile::open: the LogFile of the mapped file, size the length of the map
LogFileOpen(file, sz) ==
    LET m == OpenMmapFile(file, sz)
    IN [file |-> m.file, is_new |-> m.is_new,
        mt |-> [NoMemTable EXCEPT !.size = m.file.size, !.is_new = m.is_new]]

\* open_mem_table(opt, fid, oopt) with LogFile::open(.., 2 * mem_table_size):
\* a new file gives an empty memtable; else update_skip_list, and on its
\* error the memtable is dropped, which removes the file (Drop for MmapFile)
OpenMemTable ==
    /\ wal_mt.state = "none"
    /\ wal_disk.exists
    /\ LET lf == LogFileOpen(wal_disk, 2 * MEM_TABLE_SIZE)
           mt == IF lf.is_new THEN [lf.mt EXCEPT !.state = "open"]
                 ELSE UpdateSkipListMt(lf.mt, lf.file)
       IN /\ wal_mt' = [mt EXCEPT !.via = "open_mem_table"]
          /\ wal_disk' = IF lf.is_new THEN lf.file
                         ELSE IF mt.state = "failed"
                              THEN [lf.file EXCEPT !.exists = FALSE]
                              ELSE UpdateSkipListFile(lf.mt, lf.file)
    /\ UNCHANGED wal_orig
    /\ UNCHANGED not_wal_vars

\* MemTable::update_skip_list on a memtable whose LogFile maps the file as
\* it is on disk
UpdateSkipList ==
    /\ wal_mt.state = "none"
    /\ wal_disk.exists
    /\ LET mt == [NoMemTable EXCEPT !.size = wal_disk.size]
       IN /\ wal_mt' = [UpdateSkipListMt(mt, wal_disk) EXCEPT !.via = "update_skip_list"]
          /\ wal_disk' = UpdateSkipListFile(mt, wal_disk)
    /\ UNCHANGED wal_orig
    /\ UNCHANGED not_wal_vars

\* Drop for MmapFile: set_len(0) and remove_file
DropMemTable ==
    /\ wal_mt.state \in {"open", "failed"}
    /\ wal_disk.exists
    /\ wal_mt' = [wal_mt EXCEPT !.state = "dropped"]
    /\ wal_disk' = [wal_disk EXCEPT !.exists = FALSE, !.frames = <<>>,
                                    !.tail = "end", !.size = 0]
    /\ UNCHANGED wal_orig
    /\ UNCHANGED not_wal_vars

NextWal ==
    \/ OpenMemTable
    \/ UpdateSkipList
    \/ DropMemTable

(***************************************************************************)
(* The manifest (src/src/manifest.rs).  replay_manifest_file builds a      *)
(* Manifest from the change sets of the MANIFEST file, one                 *)
(* apply_change_set call per change set.                                   *)
(***************************************************************************)
TableIds == 1..MaxTableId

Levels == 0..MaxLevel

\* new_create_change(id, level, key_id) and a Delete change of a table
ChangeCreate(id, level) == [op |-> "Create", id |-> id, level |-> level, key_id |-> 0]

ChangeDelete(id) == [op |-> "Delete", id |-> id, level |-> 0, key_id |-> 0]

ManifestChanges ==
    {ChangeCreate(id, l) : id \in TableIds, l \in Levels}
    \cup {ChangeDelete(id) : id \in TableIds}

\* TableManifest.level is a u8: the number of levels it tells apart
U8_LEVELS == 256

\* a change set whose Create carries the first level (pb: u32) above u8
WideChangeSets == {<<ChangeCreate(id, U8_LEVELS)>> : id \in TableIds}

\* pb::ManifestChangeSet: the change sets read from the file
ChangeSets == UNION {[1..n -> ManifestChanges] : n \in 1..MaxChanges}

\* Manifest::new
ManifestNew == [levels |-> <<>>, tables |-> EmptyMap, creations |-> 0, deletions |-> 0]

\* while mf.levels.len() <= change.level: push an empty LevelManifest
LevelsUpTo(levels, level) ==
    IF Len(levels) > level THEN levels
    ELSE [l \in 1..(level + 1) |-> IF l <= Len(levels) THEN levels[l] ELSE {}]

\* the Create arm of apply_manifest_change, on an id that is absent
ManifestAfterCreate(mf, change) ==
    LET grown == LevelsUpTo(mf.levels, change.level)
    IN [mf EXCEPT
          !.tables = MapPut(@, change.id,
                            [level |-> change.level % 256, key_id |-> change.key_id]),
          !.levels = [grown EXCEPT ![change.level + 1] = @ \cup {change.id}],
          !.creations = @ + 1]

\* the Delete arm of apply_manifest_change, on an id that is present
ManifestAfterDelete(mf, change) ==
    LET table == mf.tables[change.id]
    IN [mf EXCEPT
          !.levels = [@ EXCEPT ![table.level + 1] = @ \ {change.id}],
          !.tables = MapRemove(@, change.id)]

\* apply_manifest_change: the manifest after it and whether it returned Ok
ApplyManifestChange(mf, change) ==
    IF change.op = "Create"
    THEN IF change.id \in DOMAIN mf.tables
         THEN [mf |-> mf, ok |-> FALSE]
         ELSE [mf |-> ManifestAfterCreate(mf, change), ok |-> TRUE]
    ELSE IF change.id \notin DOMAIN mf.tables
         THEN [mf |-> mf, ok |-> FALSE]
         ELSE [mf |-> ManifestAfterDelete(mf, change), ok |-> TRUE]

\* apply_change_set: the changes in order, up to the first that fails
RECURSIVE ApplyChangeSetFrom(_, _)
ApplyChangeSetFrom(mf, changes) ==
    IF changes = <<>> THEN [mf |-> mf, ok |-> TRUE]
    ELSE LET one == ApplyManifestChange(mf, Head(changes))
         IN IF one.ok THEN ApplyChangeSetFrom(one.mf, Tail(changes)) ELSE one

NoChangeSet == [changes |-> <<>>, ok |-> TRUE]

InitManifest ==
    /\ mf_state = "none"
    /\ mf_manifest = ManifestNew
    /\ mf_before = ManifestNew
    /\ mf_last = NoChangeSet

\* replay_manifest_file up to its loop: build = Manifest::new()
ReplayManifestFile ==
    /\ mf_state \in {"none", "failed"}
    /\ mf_state' = "replaying"
    /\ mf_manifest' = ManifestNew
    /\ mf_before' = ManifestNew
    /\ mf_last' = NoChangeSet
    /\ UNCHANGED not_mf_vars

\* one round of the loop of replay_manifest_file: apply_change_set on the
\* change set read; its error ends the replay
ApplyChangeSet(cs) ==
    /\ mf_state = "replaying"
    /\ mf_manifest.creations + Len(cs) <= MaxCreations
    /\ LET r == ApplyChangeSetFrom(mf_manifest, cs)
       IN /\ mf_manifest' = r.mf
          /\ mf_last' = [changes |-> cs, ok |-> r.ok]
          /\ mf_state' = IF r.ok THEN "replaying" ELSE "failed"
    /\ mf_before' = mf_manifest
    /\ UNCHANGED not_mf_vars

NextManifest ==
    \/ ReplayManifestFile
    \/ \E cs \in ChangeSets \cup WideChangeSets : ApplyChangeSet(cs)

(***************************************************************************)
(* Discard stats (src/src/vlog/discard.rs).  A cell is 16 bytes of the     *)
(* mapped file: the fid and the discarded bytes, both big-endian u64.      *)
(***************************************************************************)
Fids == 0..MaxFid

Discards == {-1, 0, 1}

ZeroCell == [fid |-> 0, val |-> 0]

\* the file after set_len(1 << 20) on an empty file: zeroes
ZeroedFile == [i \in 1..MaxCells |-> ZeroCell]

\* get(16 * slot) and get(16 * slot + 8); the cells past the modelled ones
\* are zero
CellAt(cells, slot) == IF slot < Len(cells) THEN cells[slot + 1] ELSE ZeroCell

\* the loop of DiscardStatsInner::new: the first slot whose fid is 0
RECURSIVE FirstZeroSlot(_, _)
FirstZeroSlot(cells, slot) ==
    IF CellAt(cells, slot).fid = 0 THEN slot ELSE FirstZeroSlot(cells, slot + 1)

\* one cell put in its place among cells sorted by fid
RECURSIVE InsertSorted(_, _)
InsertSorted(sorted, cell) ==
    IF sorted = <<>> THEN <<cell>>
    ELSE IF cell.fid < Head(sorted).fid THEN <<cell>> \o sorted
    ELSE <<Head(sorted)>> \o InsertSorted(Tail(sorted), cell)

RECURSIVE SortedCells(_)
SortedCells(cells) ==
    IF cells = <<>> THEN <<>>
    ELSE InsertSorted(SortedCells(SubSeq(cells, 1, Len(cells) - 1)), cells[Len(cells)])

\* sort: the first next_empty_slot cells ordered by fid
DsSort(cells, next_empty_slot) ==
    SortedCells(SubSeq(cells, 1, next_empty_slot))
    \o SubSeq(cells, next_empty_slot + 1, Len(cells))

\* zero_out: the cell at next_empty_slot set to zero
DsZeroOut(cells, next_empty_slot) ==
    [i \in 1..Len(cells) |-> IF i = next_empty_slot + 1 THEN ZeroCell ELSE cells[i]]

\* binary_search_by over the slots 0..next_empty_slot, whose fids are
\* sorted and distinct: Ok(idx) of the slot that holds fid, else Err(idx) of
\* the place fid would take; both are the number of slots with a smaller fid
DsSearch(cells, next_empty_slot, fid) ==
    Cardinality({slot \in 0..(next_empty_slot - 1) : CellAt(cells, slot).fid < fid})

\* idx < self.next_empty_slot && self.get(idx * 16)? == fid
DsFound(cells, next_empty_slot, fid) ==
    LET idx == DsSearch(cells, next_empty_slot, fid)
    IN idx < next_empty_slot /\ CellAt(cells, idx).fid = fid

\* a negative discard on a fid that is there: the value it is set to
ClampedSum(cur_disc, discard) == IF cur_disc + discard < 0 THEN 0 ELSE cur_disc + discard

NegativeDiscard(cur_disc, discard) == 0

\* the value update stores for a fid that is there
DiscardAfter(cur_disc, discard) ==
    IF discard = 0 THEN cur_disc
    ELSE IF discard < 0 THEN NegativeDiscard(cur_disc, discard)
    ELSE cur_disc + discard

\* if discard <= 0 { return Ok(0) } for a fid that is not there
SkipsNegative(discard) == discard < 0

SkipsAbsent(discard) == discard <= 0

\* DiscardStatsInner::update: what it returns
DsUpdateResult(cells, next_empty_slot, fid, discard) ==
    IF DsFound(cells, next_empty_slot, fid)
    THEN DiscardAfter(CellAt(cells, DsSearch(cells, next_empty_slot, fid)).val, discard)
    ELSE IF SkipsAbsent(discard) THEN 0 ELSE discard

\* DiscardStatsInner::update: the cells after it
DsUpdateCells(cells, next_empty_slot, fid, discard) ==
    IF DsFound(cells, next_empty_slot, fid)
    THEN LET idx == DsSearch(cells, next_empty_slot, fid)
         IN [cells EXCEPT ![idx + 1].val = DiscardAfter(@, discard)]
    ELSE IF SkipsAbsent(discard) THEN cells
    ELSE LET put == [cells EXCEPT ![next_empty_slot + 1] = [fid |-> fid, val |-> discard]]
         IN DsSort(DsZeroOut(put, next_empty_slot + 1), next_empty_slot + 1)

\* DiscardStatsInner::update: next_empty_slot after it
DsUpdateSlot(cells, next_empty_slot, fid, discard) ==
    IF DsFound(cells, next_empty_slot, fid) \/ SkipsAbsent(discard)
    THEN next_empty_slot
    ELSE next_empty_slot + 1

NoDsCall == [op |-> "none", fid |-> 0, discard |-> 0, result |-> 0, was |-> -1]

InitDiscard ==
    /\ ds_file = <<>>
    /\ ds_open = FALSE
    /\ ds_next_empty_slot = 0
    /\ ds_last = NoDsCall
    /\ ds_at_close = [fid \in Fids |-> 0]

\* DiscardStats::new: open_mmap_file of util/file.rs with create(true) grows
\* an empty file to 1 << 20 bytes and reports it new; then zero_out on a new
\* file, the search for the first empty slot, and sort
DiscardStatsNew ==
    /\ ~ds_open
    /\ LET is_new == ds_file = <<>>
           mapped == IF is_new THEN DsZeroOut(ZeroedFile, 0) ELSE ds_file
           slot == FirstZeroSlot(mapped, 0)
       IN /\ ds_file' = DsSort(mapped, slot)
          /\ ds_next_empty_slot' = slot
    /\ ds_open' = TRUE
    /\ ds_last' = [NoDsCall EXCEPT !.op = "new"]
    /\ UNCHANGED ds_at_close
    /\ UNCHANGED not_ds_vars

\* DiscardStats::update(fid, discard)
DiscardStatsUpdate(fid, discard) ==
    /\ ds_open
    /\ ~DsFound(ds_file, ds_next_empty_slot, fid) /\ discard > 0
       => ds_next_empty_slot + 1 < MaxCells
    /\ DsUpdateResult(ds_file, ds_next_empty_slot, fid, discard) <= MaxDiscard
    /\ ds_file' = DsUpdateCells(ds_file, ds_next_empty_slot, fid, discard)
    /\ ds_next_empty_slot' = DsUpdateSlot(ds_file, ds_next_empty_slot, fid, discard)
    /\ ds_last' = [op |-> "update", fid |-> fid, discard |-> discard,
                   result |-> DsUpdateResult(ds_file, ds_next_empty_slot, fid, discard),
                   was |-> IF DsFound(ds_file, ds_next_empty_slot, fid)
                           THEN CellAt(ds_file, DsSearch(ds_file, ds_next_empty_slot, fid)).val
                           ELSE -1]
    /\ UNCHANGED <<ds_open, ds_at_close>>
    /\ UNCHANGED not_ds_vars

\* the DiscardStats is dropped; the file keeps what was written to the map
DropDiscardStats ==
    /\ ds_open
    /\ ds_open' = FALSE
    /\ ds_at_close' = [fid \in Fids |-> DsUpdateResult(ds_file, ds_next_empty_slot, fid, 0)]
    /\ ds_next_empty_slot' = 0
    /\ ds_last' = [NoDsCall EXCEPT !.op = "drop"]
    /\ UNCHANGED ds_file
    /\ UNCHANGED not_ds_vars

NextDiscard ==
    \/ DiscardStatsNew
    \/ \E fid \in Fids, discard \in Discards : DiscardStatsUpdate(fid, discard)
    \/ DropDiscardStats

(***************************************************************************)
(* The table builder and the table iterator (src/src/table).  A key is a   *)
(* sequence of bytes; a block keeps, per entry, the header's overlap and   *)
(* the diff bytes, as Builder::add_helper writes them, and the iterator    *)
(* rebuilds every key from them, as BlockIterator::set_idx does.  Every    *)
(* value is one byte long with no expiry.                                  *)
(***************************************************************************)
TableKeyBytes == 1..MaxKeyByte

TableKeys == UNION {[1..n -> TableKeyBytes] : n \in 1..MaxKeyLen}

\* Keys to seek: every key a table can hold, one below all of them and one
\* above all of them.
SeekKeys == TableKeys \cup {<<0>>, <<MaxKeyByte + 1>>}

BlockSizes == {0, 50, 4096}

HEADER_SIZE == 4

\* ValueStruct::encoded_size of a one byte value: the value, meta, user_meta
\* and the one byte varint of expires_at = 0.
ValueEncodedSize == 1 + 2 + 1

RECURSIVE BytesLessFrom(_, _, _)
BytesLessFrom(a, b, i) ==
    IF i > Len(a) THEN i <= Len(b)
    ELSE IF i > Len(b) THEN FALSE
    ELSE IF a[i] # b[i] THEN a[i] < b[i]
    ELSE BytesLessFrom(a, b, i + 1)

\* The order of byte slices (Ord::cmp on [u8]).
BytesLess(a, b) == BytesLessFrom(a, b, 1)

MinKey(S) == CHOOSE k \in S : \A o \in S \ {k} : BytesLess(k, o)

RECURSIVE KeyStream(_)
\* The keys of S as the strictly increasing stream the builder is fed.
KeyStream(S) ==
    IF S = {} THEN <<>> ELSE <<MinKey(S)>> \o KeyStream(S \ {MinKey(S)})

NewBblock == [base_key |-> <<>>, entries |-> <<>>, end |-> 0]

NewBuilder == [cur_block |-> NewBblock, block_list |-> <<>>]

RECURSIVE KeyDiffFrom(_, _, _)
\* The index key_diff stops at: the first position where key and base_key
\* differ, and 0 when the loop leaves without finding one.
KeyDiffFrom(key, base_key, i) ==
    IF i >= Len(key) \/ i >= Len(base_key) THEN 0
    ELSE IF key[i + 1] # base_key[i + 1] THEN i
    ELSE KeyDiffFrom(key, base_key, i + 1)

key_diff(key, base_key) ==
    SubSeq(key, KeyDiffFrom(key, base_key, 0) + 1, Len(key))

should_finish_block(b, key, block_size) ==
    IF Len(b.cur_block.entries) = 0 THEN FALSE
    ELSE b.cur_block.end + 6 + Len(key) + ValueEncodedSize
             + ((Len(b.cur_block.entries) + 1) * 4 + (4 + 8 + 4)) > block_size

finish_block(b) ==
    IF Len(b.cur_block.entries) = 0 THEN b
    ELSE [b EXCEPT !.block_list = Append(@, b.cur_block)]

add_helper(b, key) ==
    LET cur == b.cur_block
        diff_key == IF Len(cur.base_key) = 0 THEN key
                    ELSE key_diff(key, cur.base_key)
    IN  [b EXCEPT !.cur_block =
            [base_key |-> IF Len(cur.base_key) = 0 THEN key ELSE cur.base_key,
             entries |-> Append(cur.entries,
                                [overlap |-> Len(key) - Len(diff_key),
                                 diff |-> diff_key]),
             end |-> cur.end + HEADER_SIZE + Len(diff_key) + ValueEncodedSize]]

BuilderAdd(b, key, block_size) ==
    add_helper(IF should_finish_block(b, key, block_size)
               THEN [finish_block(b) EXCEPT !.cur_block = NewBblock]
               ELSE b,
               key)

RECURSIVE BuilderAddAll(_, _, _, _)
BuilderAddAll(b, keys, i, block_size) ==
    IF i > Len(keys) THEN b
    ELSE BuilderAddAll(BuilderAdd(b, keys[i], block_size), keys, i + 1, block_size)

\* Builder::done: the last block is finished and the block list is handed over.
BuilderDone(b) == finish_block(b).block_list

DefaultBlockIterator ==
    [entries |-> <<>>, idx |-> 0, base_key |-> <<>>, key |-> <<>>,
     prev_overlap |-> 0]

NewBlockIterator(block) == [DefaultBlockIterator EXCEPT !.entries = block.entries]

BlockIsEmpty(bi) == Len(bi.entries) = 0

BlockValid(bi) == bi.idx >= 0 /\ bi.idx < Len(bi.entries)

\* BlockIterator::set_idx: the key is rebuilt from the key of the entry the
\* iterator stood on, the base key and the entry's diff.
set_idx(bi, idx) ==
    IF idx < 0 \/ idx >= Len(bi.entries)
    THEN [bi |-> [bi EXCEPT !.idx = idx], ok |-> FALSE]
    ELSE LET base_key == IF Len(bi.base_key) = 0 THEN bi.entries[1].diff
                         ELSE bi.base_key
             header == bi.entries[idx + 1]
             grown == IF header.overlap > bi.prev_overlap
                      THEN SubSeq(bi.key, 1, bi.prev_overlap)
                               \o SubSeq(base_key, bi.prev_overlap + 1, header.overlap)
                      ELSE bi.key
         IN  [bi |-> [bi EXCEPT !.idx = idx,
                                !.base_key = base_key,
                                !.prev_overlap = header.overlap,
                                !.key = SubSeq(grown, 1, header.overlap) \o header.diff],
              ok |-> TRUE]

RECURSIVE BlockSearchFrom(_, _, _, _)
\* binary_search_by over the entries of the block: every probe moves the
\* iterator with set_idx before it compares.
BlockSearchFrom(bi, left, right, key) ==
    IF left >= right THEN [bi |-> bi, idx |-> left]
    ELSE LET mid == left + ((right - left) \div 2)
             probed == set_idx(bi, mid).bi
         IN  IF probed.key = key THEN [bi |-> probed, idx |-> mid]
             ELSE IF BytesLess(probed.key, key)
                  THEN BlockSearchFrom(probed, mid + 1, right, key)
                  ELSE BlockSearchFrom(probed, left, mid, key)

BlockSeek(bi, key) ==
    LET found == BlockSearchFrom(bi, 0, Len(bi.entries), key)
    IN  set_idx(found.bi, found.idx)

BlockSeekToFirst(bi) == set_idx(bi, 0)

SeekPastLast(bi) == set_idx(bi, Len(bi.entries))

BlockSeekToLast(bi) == set_idx(bi, Len(bi.entries) - 1)

\* TableInner::get_biggest_and_smallest: the key of the first block offset
\* and the key a BlockIterator over the last block ends on.
BuildTable(keys, block_size) ==
    LET block_list == BuilderDone(BuilderAddAll(NewBuilder, keys, 1, block_size))
        last_block == block_list[Len(block_list)]
    IN  [blocks |-> [i \in 1..Len(block_list) |-> [entries |-> block_list[i].entries]],
         offsets |-> [i \in 1..Len(block_list) |-> block_list[i].base_key],
         smallest |-> block_list[1].base_key,
         biggest |-> BlockSeekToLast(NewBlockIterator(last_block)).bi.key]

offsets_len(t) == Len(t.offsets)

\* A usize that wrapped below zero is written -1 (usize::MAX): adding one to
\* it gives 0 again, and it is greater than every other usize.
UsizePred(i) == i - 1

UsizeGt(a, b) == IF a < 0 THEN b >= 0 ELSE b >= 0 /\ a > b

RECURSIVE OffsetsSearchFrom(_, _, _, _)
\* binary_search_by over the block offsets' keys: Ok(idx) or Err(idx).
OffsetsSearchFrom(t, left, right, key) ==
    IF left >= right THEN [found |-> FALSE, idx |-> left]
    ELSE LET mid == left + ((right - left) \div 2)
         IN  IF t.offsets[mid + 1] = key THEN [found |-> TRUE, idx |-> mid]
             ELSE IF BytesLess(t.offsets[mid + 1], key)
                  THEN OffsetsSearchFrom(t, mid + 1, right, key)
                  ELSE OffsetsSearchFrom(t, left, mid, key)

NewIterator == [bpos |-> 0, bi |-> DefaultBlockIterator]

Answer(ok) == IF ok THEN "true" ELSE "false"

seek_helper(t, it, block_idx, key) ==
    IF UsizeGt(block_idx, offsets_len(t))
    THEN [it |-> [it EXCEPT !.bpos = block_idx], res |-> "false"]
    ELSE IF block_idx >= offsets_len(t)
    THEN [it |-> [it EXCEPT !.bpos = block_idx], res |-> "err"]
    ELSE LET sought == BlockSeek(NewBlockIterator(t.blocks[block_idx + 1]), key)
         IN  [it |-> [bpos |-> block_idx, bi |-> sought.bi], res |-> Answer(sought.ok)]

\* Iterator::seek_from.  Err(0) - 1 overflows: a build with overflow checks
\* panics there, a build without them goes on with usize::MAX.
seek_from(t, it, key, overflow_checks) ==
    LET search == OffsetsSearchFrom(t, 0, offsets_len(t), key)
        idx == IF search.found THEN search.idx ELSE UsizePred(search.idx)
        first == seek_helper(t, it, idx, key)
    IN  IF ~search.found /\ search.idx = 0 /\ overflow_checks
        THEN [it |-> [it EXCEPT !.bpos = 0], res |-> "panic"]
        ELSE IF idx = 0 THEN seek_helper(t, it, 0, key)
        ELSE IF first.res = "false"
             THEN IF idx + 1 >= offsets_len(t) THEN first
                  ELSE seek_helper(t, first.it, idx + 1, key)
             ELSE first

IterSeekToFirst(t, it) ==
    IF offsets_len(t) = 0 THEN [it |-> it, res |-> "false"]
    ELSE LET first == BlockSeekToFirst(NewBlockIterator(t.blocks[1]))
         IN  [it |-> [bpos |-> 0, bi |-> first.bi], res |-> Answer(first.ok)]

IterSeekToLast(t, it) ==
    IF offsets_len(t) = 0 THEN [it |-> it, res |-> "false"]
    ELSE LET last == BlockSeekToLast(NewBlockIterator(t.blocks[offsets_len(t)]))
         IN  [it |-> [bpos |-> offsets_len(t) - 1, bi |-> last.bi],
              res |-> Answer(last.ok)]

RECURSIVE IterPrev(_, _)
IterPrev(t, it) ==
    IF BlockIsEmpty(it.bi)
    THEN IF it.bpos >= offsets_len(t) THEN [it |-> it, res |-> "false"]
         ELSE LET last == BlockSeekToLast(NewBlockIterator(t.blocks[it.bpos + 1]))
              IN  [it |-> [it EXCEPT !.bi = last.bi], res |-> Answer(last.ok)]
    ELSE LET stepped == set_idx(it.bi, it.bi.idx - 1)
         IN  IF stepped.ok THEN [it |-> [it EXCEPT !.bi = stepped.bi], res |-> "true"]
             ELSE IF it.bpos = 0
                  THEN [it |-> [it EXCEPT !.bi = stepped.bi], res |-> "false"]
                  ELSE IterPrev(t, [bpos |-> it.bpos - 1, bi |-> DefaultBlockIterator])

RECURSIVE IterNext(_, _)
IterNext(t, it) ==
    IF it.bpos >= offsets_len(t) THEN [it |-> it, res |-> "false"]
    ELSE IF BlockIsEmpty(it.bi)
    THEN LET first == BlockSeekToFirst(NewBlockIterator(t.blocks[it.bpos + 1]))
         IN  [it |-> [it EXCEPT !.bi = first.bi], res |-> Answer(first.ok)]
    ELSE LET stepped == set_idx(it.bi, it.bi.idx + 1)
         IN  IF stepped.ok THEN [it |-> [it EXCEPT !.bi = stepped.bi], res |-> "true"]
             ELSE IterNext(t, [bpos |-> it.bpos + 1, bi |-> DefaultBlockIterator])

IterValid(t, it) == it.bpos < offsets_len(t) /\ BlockValid(it.bi)

NoKey == <<>>

NoIterCall == [op |-> "none", key |-> NoKey, res |-> "none"]

NoWalk == [kind |-> "none", seen |-> <<>>, ended |-> FALSE]

\* The walk after one more step in its direction: the key the iterator
\* stands on when the step succeeded, the end of the walk when it did not.
WalkStep(walk, kind, out) ==
    IF walk.kind # kind THEN NoWalk
    ELSE IF out.res = "true"
         THEN [walk EXCEPT !.seen = Append(@, out.it.bi.key)]
         ELSE [walk EXCEPT !.ended = TRUE]

WalkStart(kind, out) ==
    IF out.res = "true"
    THEN [kind |-> kind, seen |-> <<out.it.bi.key>>, ended |-> FALSE]
    ELSE [kind |-> kind, seen |-> <<>>, ended |-> TRUE]

InitTable ==
    /\ \E S \in SUBSET TableKeys :
          /\ Cardinality(S) \in 1..MaxKeys
          /\ tb_keys = KeyStream(S)
    /\ tb_block_size \in BlockSizes
    /\ tb_overflow_checks \in BOOLEAN
    /\ tb_table = BuildTable(tb_keys, tb_block_size)
    /\ tb_it = NewIterator
    /\ tb_last = NoIterCall
    /\ tb_walk = NoWalk

\* No table is built: the state of the table while another part runs.
TableAtRest ==
    /\ tb_keys = <<>>
    /\ tb_block_size = 0
    /\ tb_overflow_checks = FALSE
    /\ tb_table = [blocks |-> <<>>, offsets |-> <<>>, smallest |-> NoKey, biggest |-> NoKey]
    /\ tb_it = NewIterator
    /\ tb_last = NoIterCall
    /\ tb_walk = NoWalk

TableUnchanged == UNCHANGED <<tb_keys, tb_block_size, tb_overflow_checks, tb_table>>

\* Table::new_iterator: a fresh iterator, also after a call that panicked.
TableNewIterator ==
    /\ tb_last.op \notin {"none", "new_iterator"}
    /\ tb_it' = NewIterator
    /\ tb_last' = [op |-> "new_iterator", key |-> NoKey, res |-> "none"]
    /\ tb_walk' = NoWalk
    /\ TableUnchanged
    /\ UNCHANGED not_tb_vars

TableSeek(key) ==
    /\ tb_last.res # "panic"
    /\ LET out == seek_from(tb_table, tb_it, key, tb_overflow_checks)
       IN  /\ tb_it' = out.it
           /\ tb_last' = [op |-> "seek", key |-> key, res |-> out.res]
    /\ tb_walk' = NoWalk
    /\ TableUnchanged
    /\ UNCHANGED not_tb_vars

TableSeekToFirst ==
    /\ tb_last.res # "panic"
    /\ LET out == IterSeekToFirst(tb_table, tb_it)
       IN  /\ tb_it' = out.it
           /\ tb_last' = [op |-> "seek_to_first", key |-> NoKey, res |-> out.res]
           /\ tb_walk' = WalkStart("forward", out)
    /\ TableUnchanged
    /\ UNCHANGED not_tb_vars

TableSeekToLast ==
    /\ tb_last.res # "panic"
    /\ LET out == IterSeekToLast(tb_table, tb_it)
       IN  /\ tb_it' = out.it
           /\ tb_last' = [op |-> "seek_to_last", key |-> NoKey, res |-> out.res]
           /\ tb_walk' = WalkStart("backward", out)
    /\ TableUnchanged
    /\ UNCHANGED not_tb_vars

TableNext ==
    /\ tb_last.res # "panic"
    /\ LET out == IterNext(tb_table, tb_it)
       IN  /\ tb_it' = out.it
           /\ tb_last' = [op |-> "next", key |-> NoKey, res |-> out.res]
           /\ tb_walk' = WalkStep(tb_walk, "forward", out)
    /\ TableUnchanged
    /\ UNCHANGED not_tb_vars

\* Every prev in front of the first key lowers bi.idx by one more: the
\* walk is cut after the second such call.
TablePrev ==
    /\ tb_last.res # "panic"
    /\ tb_it.bi.idx >= -1
    /\ LET out == IterPrev(tb_table, tb_it)
       IN  /\ tb_it' = out.it
           /\ tb_last' = [op |-> "prev", key |-> NoKey, res |-> out.res]
           /\ tb_walk' = WalkStep(tb_walk, "backward", out)
    /\ TableUnchanged
    /\ UNCHANGED not_tb_vars

NextTable ==
    \/ TableNewIterator
    \/ \E key \in SeekKeys : TableSeek(key)
    \/ TableSeekToFirst
    \/ TableSeekToLast
    \/ TableNext
    \/ TablePrev

(***************************************************************************)
(* DBInner::is_banned (src/src/db.rs) over keys long enough to hold a      *)
(* namespace.  No code of the repository inserts into bannedNamespaces;    *)
(* the sets below are what the field can hold.                             *)
(***************************************************************************)
RECURSIVE ZeroBytes(_)
ZeroBytes(n) == IF n = 0 THEN <<>> ELSE <<0>> \o ZeroBytes(n - 1)

\* The last bytes of the keys: none, and bytes that read 1 or 256 as the low
\* end of a big-endian number, with and without a byte after them.
NamespaceTails == {<<>>, <<1>>, <<1, 0>>, <<0, 1>>, <<1, 0, 9>>, <<0, 1, 9>>}

NamespaceKeys == {ZeroBytes(n) \o t : n \in 0..MaxZeroBytes, t \in NamespaceTails}

NamespaceOffsets == {-1, 0, 1}

BannedSets == SUBSET {1, 256}

InitBanned ==
    /\ bn_key = <<>>
    /\ bn_namespace_offset = NAMESPACE_OFFSET
    /\ bn_banned = {}
    /\ bn_result = "none"

\* is_banned(key) on a DB with the given namespace_offset and banned set.
DbIsBanned(key, namespace_offset, banned_namespaces) ==
    /\ bn_key' = key
    /\ bn_namespace_offset' = namespace_offset
    /\ bn_banned' = banned_namespaces
    /\ bn_result' = IF IsBanned(key, namespace_offset, banned_namespaces)
                    THEN "BannedKey" ELSE "Ok"
    /\ UNCHANGED not_bn_vars

NextBanned ==
    \E key \in NamespaceKeys, off \in NamespaceOffsets, set \in BannedSets :
        DbIsBanned(key, off, set)

(***************************************************************************)
(* LevelsController::new up to the opening of the tables                   *)
(* (src/src/level/level.rs, src/src/util/table.rs, src/src/util/mod.rs).   *)
(* A file name is the bytes in front of its suffix and the suffix.         *)
(***************************************************************************)
FILE_SUFFIX == ".sst"

\* The width id_to_filename pads the id to ("{:05}").
FILENAME_WIDTH == 5

RECURSIVE DecimalDigits(_)
\* The id written in decimal digits, as format! writes it.
DecimalDigits(id) ==
    IF id < 10 THEN <<48 + id>>
    ELSE DecimalDigits(id \div 10) \o <<48 + (id % 10)>>

RECURSIVE PadZeros(_, _)
PadZeros(digits, width) ==
    IF Len(digits) >= width THEN digits ELSE PadZeros(<<48>> \o digits, width)

id_to_filename(id) ==
    [stem |-> PadZeros(DecimalDigits(id), FILENAME_WIDTH), suffix |-> FILE_SUFFIX]

\* parse_file_id: Ok(id), Err for a name that is no <number>.sst, and a
\* panic where assert!(id > 0) fails.
parse_file_id(name) ==
    IF name.suffix # FILE_SUFFIX THEN [res |-> "Err", id |-> 0]
    ELSE IF ParseDecimal(name.stem) < 0 THEN [res |-> "Err", id |-> 0]
    ELSE IF ParseDecimal(name.stem) = 0 THEN [res |-> "Panic", id |-> 0]
    ELSE [res |-> "Ok", id |-> ParseDecimal(name.stem)]

\* The files a directory can hold: for every id from 0 on, the name
\* id_to_filename gives it and the name with no zeroes in front, and one
\* file of another kind.
FileNames ==
    {id_to_filename(id) : id \in 0..MaxTableId}
        \cup {[stem |-> DecimalDigits(id), suffix |-> FILE_SUFFIX] : id \in 0..MaxTableId}
        \cup {[stem |-> DecimalDigits(1), suffix |-> ".vlog"]}

\* get_id_map: the ids parse_file_id reads from the names of the directory
get_id_map(disk) ==
    {parse_file_id(name).id : name \in {n \in disk : parse_file_id(n).res = "Ok"}}

GetIdMapPanics(disk) == \E name \in disk : parse_file_id(name).res = "Panic"

RECURSIVE RemoveUnlisted(_, _, _, _)
\* The second loop of revert_to_manifest over the ids in the given order:
\* remove_file on the name new_filename gives the id, an error when there
\* is no file of that name.
RemoveUnlisted(disk, manifest, order, i) ==
    IF i > Len(order) THEN [disk |-> disk, ok |-> TRUE]
    ELSE IF order[i] \in manifest THEN RemoveUnlisted(disk, manifest, order, i + 1)
    ELSE IF id_to_filename(order[i]) \notin disk THEN [disk |-> disk, ok |-> FALSE]
    ELSE RemoveUnlisted(disk \ {id_to_filename(order[i])}, manifest, order, i + 1)

revert_to_manifest(disk, manifest, order) ==
    IF \E id \in manifest : id \notin get_id_map(disk)
    THEN [disk |-> disk, ok |-> FALSE]
    ELSE RemoveUnlisted(disk, manifest, order, 1)

\* The orders a HashMap can give the keys of the id map in.
KeyOrders(ids) ==
    {order \in [1..Cardinality(ids) -> ids] : \A id \in ids : \E i \in DOMAIN order : order[i] = id}

LevelsAtRest ==
    /\ lv_disk = {}
    /\ lv_manifest = {}
    /\ lv_before = {}
    /\ lv_result = "none"

InitLevels ==
    /\ lv_disk \in SUBSET FileNames
    /\ lv_manifest \in SUBSET TableIds
    /\ lv_before = {}
    /\ lv_result = "none"

\* LevelsController::new: get_id_map, revert_to_manifest, then every table
\* of the manifest is opened from the file new_filename names.
LevelsControllerNew(order) ==
    /\ lv_result = "none"
    /\ ~GetIdMapPanics(lv_disk) => order \in KeyOrders(get_id_map(lv_disk))
    /\ lv_before' = lv_disk
    /\ LET reverted == revert_to_manifest(lv_disk, lv_manifest, order)
       IN  IF GetIdMapPanics(lv_disk)
           THEN lv_disk' = lv_disk /\ lv_result' = "Panic"
           ELSE /\ lv_disk' = reverted.disk
                /\ lv_result' =
                      IF ~reverted.ok THEN "Err"
                      ELSE IF \E id \in lv_manifest : id_to_filename(id) \notin reverted.disk
                           THEN "Err"
                           ELSE "Ok"
    /\ UNCHANGED lv_manifest
    /\ UNCHANGED not_lv_vars

\* A later run of the program finds the directory as the last one left it.
LevelsRestart ==
    /\ lv_result # "none"
    /\ lv_result' = "none"
    /\ UNCHANGED <<lv_disk, lv_manifest, lv_before>>
    /\ UNCHANGED not_lv_vars

NextLevels ==
    \/ \E order \in UNION {KeyOrders(ids) : ids \in SUBSET TableIds} : LevelsControllerNew(order)
    \/ LevelsRestart

(***************************************************************************)
(* ValueLog::write (src/src/vlog/write.rs) on a value log opened on an     *)
(* empty directory (src/src/vlog/value.rs).  An entry is the length of its *)
(* value; a request is the list of its entries, each with its pointer.     *)
(***************************************************************************)
ValueLens == 0..MaxValueLen

\* ValuePointer::default()
ZeroPointer == [fid |-> 0, len |-> 0, offset |-> 0]

\* WriteReq::new: every entry is paired with the default pointer.
WriteReqNew(lens) == [i \in 1..Len(lens) |-> [value_len |-> lens[i], vp |-> ZeroPointer]]

VlogRequests == {WriteReqNew(lens) : lens \in UNION {[1..n -> ValueLens] : n \in 1..MaxVlogEntries}}

VlogRequestLists == UNION {[1..n -> VlogRequests] : n \in 0..MaxVlogReqs}

\* The options of the value log: thresholds that split the values, a file
\* size below the header size, where every write ends the file, and one
\* above it.
VlogOptions ==
    {[value_threshold |-> t, value_log_file_size |-> s, value_log_max_entries |-> 1000000] :
        t \in 1..MaxValueLen, s \in {10, 1000}}

NoVlogWrite == [reqs |-> <<>>, fid |-> 0, woffset |-> 0, result |-> "none"]

VlogAtRest ==
    /\ vl_opt = [value_threshold |-> 1, value_log_file_size |-> 1000,
                 value_log_max_entries |-> 1000000]
    /\ vl_max_fid = 0
    /\ vl_woffset = 0
    /\ vl_num_entries_written = 0
    /\ vl_last = NoVlogWrite

\* ValueLog::open on an empty directory: create_vlog_file makes file 1,
\* and the create_vlog_file at the end of open makes file 2.
InitVlog ==
    /\ vl_opt \in VlogOptions
    /\ vl_max_fid = 2
    /\ vl_woffset = VLOG_HEADER_SIZE
    /\ vl_num_entries_written = 0
    /\ vl_last = NoVlogWrite

\* validate_writes: estimate_request_size, called on the first request, is
\* todo!(): it panics whenever there is a request.
ValidateWrites(reqs) == IF Len(reqs) = 0 THEN "Ok" ELSE "Panic"

\* The test that ends a file: `to disk` in write.
VlogFileIsFull ==
    \/ vl_woffset > vl_opt.value_log_file_size
    \/ vl_num_entries_written > vl_opt.value_log_max_entries

\* ValueLog::write.  With a request, validate_writes panics before the
\* loop over the requests, which nothing reaches; with none, the loop has
\* nothing to do and only the test that ends the file runs.
VlogWrite(reqs) ==
    /\ vl_max_fid < MaxVlogFid
    /\ vl_last' = [reqs |-> reqs, fid |-> vl_max_fid, woffset |-> vl_woffset,
                   result |-> ValidateWrites(reqs)]
    /\ IF ValidateWrites(reqs) = "Ok" /\ VlogFileIsFull
       THEN /\ vl_max_fid' = vl_max_fid + 1
            /\ vl_woffset' = VLOG_HEADER_SIZE
            /\ vl_num_entries_written' = 0
       ELSE UNCHANGED <<vl_max_fid, vl_woffset, vl_num_entries_written>>
    /\ UNCHANGED vl_opt
    /\ UNCHANGED not_vl_vars

NextVlog == \E reqs \in VlogRequestLists : VlogWrite(reqs)

(***************************************************************************)
(* Oracle::read_ts (src/src/txn/oracle.rs) one statement at a time, with   *)
(* the process of the txn watermark.  Nothing sends Begin or Done to the   *)
(* txn watermark, so its done_until stays TxnMarkDoneUntil.                *)
(***************************************************************************)
Readers == 1..NumReaders

AlwaysReached(done_until, index) == TRUE

\* wait_for_mark and the Wait arm of process: self.done_until() >= index
MarkReached(done_until, index) == done_until >= index

ReadTsAtRest ==
    /\ ro_next_txn_ts = 1
    /\ ro_lock = 0
    /\ ro_pc = [c \in Readers |-> "idle"]
    /\ ro_rt = [c \in Readers |-> 0]
    /\ ro_read_marks = <<>>
    /\ ro_txn_ch = <<>>
    /\ ro_txn_waiters = {}
    /\ ro_calls = 0

\* After DB::open: next_txn_ts = max_version + 1.
InitReadTs ==
    /\ ro_next_txn_ts \in {v + 1 : v \in 0..MaxVersion}
    /\ ro_lock = 0
    /\ ro_pc = [c \in Readers |-> "idle"]
    /\ ro_rt = [c \in Readers |-> 0]
    /\ ro_read_marks = <<>>
    /\ ro_txn_ch = <<>>
    /\ ro_txn_waiters = {}
    /\ ro_calls = 0

\* let txnx = self.txnx.lock(); let read_ts = txnx.next_txn_ts - 1
ReadTsLock(c) ==
    /\ ro_pc[c] = "idle"
    /\ ro_calls < MaxReadTsCalls
    /\ ro_lock = 0
    /\ ro_lock' = c
    /\ ro_rt' = [ro_rt EXCEPT ![c] = ro_next_txn_ts - 1]
    /\ ro_pc' = [ro_pc EXCEPT ![c] = "locked"]
    /\ ro_calls' = ro_calls + 1
    /\ UNCHANGED <<ro_next_txn_ts, ro_read_marks, ro_txn_ch, ro_txn_waiters>>
    /\ UNCHANGED not_ro_vars

\* self.read_mark.begin(read_ts).await
ReadTsBegin(c) ==
    /\ ro_pc[c] = "locked"
    /\ ro_read_marks' = Append(ro_read_marks, [index |-> ro_rt[c], caller |-> c])
    /\ ro_pc' = [ro_pc EXCEPT ![c] = "begun"]
    /\ UNCHANGED <<ro_next_txn_ts, ro_lock, ro_rt, ro_txn_ch, ro_txn_waiters, ro_calls>>
    /\ UNCHANGED not_ro_vars

\* drop(txnx)
ReadTsUnlock(c) ==
    /\ ro_pc[c] = "begun"
    /\ ro_lock' = 0
    /\ ro_pc' = [ro_pc EXCEPT ![c] = "unlocked"]
    /\ UNCHANGED <<ro_next_txn_ts, ro_rt, ro_read_marks, ro_txn_ch, ro_txn_waiters, ro_calls>>
    /\ UNCHANGED not_ro_vars

\* self.txn_mark.wait_for_mark(read_ts): the test of done_until, and the
\* Wait mark sent when it fails
ReadTsWaitForMark(c) ==
    /\ ro_pc[c] = "unlocked"
    /\ IF MarkReached(TxnMarkDoneUntil, ro_rt[c])
       THEN /\ ro_pc' = [ro_pc EXCEPT ![c] = "returned"]
            /\ UNCHANGED ro_txn_ch
       ELSE /\ Len(ro_txn_ch) < MARK_CHANNEL_CAPACITY
            /\ ro_txn_ch' = Append(ro_txn_ch, MarkWait(ro_rt[c], c))
            /\ ro_pc' = [ro_pc EXCEPT ![c] = "waiting"]
    /\ UNCHANGED <<ro_next_txn_ts, ro_lock, ro_rt, ro_read_marks, ro_txn_waiters, ro_calls>>
    /\ UNCHANGED not_ro_vars

\* The process of the txn watermark on the Wait mark at the head of its
\* channel: the waiter is notified, and read_ts returns Ok(read_ts), when
\* done_until has reached the index; otherwise it is kept in waiters.
TxnMarkProcess ==
    /\ ro_txn_ch # <<>>
    /\ ro_txn_ch' = Tail(ro_txn_ch)
    /\ IF MarkReached(TxnMarkDoneUntil, Head(ro_txn_ch).index)
       THEN /\ ro_pc' = [ro_pc EXCEPT ![Head(ro_txn_ch).waiter] = "returned"]
            /\ UNCHANGED ro_txn_waiters
       ELSE /\ ro_txn_waiters' = ro_txn_waiters \cup {Head(ro_txn_ch)}
            /\ UNCHANGED ro_pc
    /\ UNCHANGED <<ro_next_txn_ts, ro_lock, ro_rt, ro_read_marks, ro_calls>>
    /\ UNCHANGED not_ro_vars

\* The caller that was handed its read timestamp asks for another one.
ReadTsAgain(c) ==
    /\ ro_pc[c] = "returned"
    /\ ro_pc' = [ro_pc EXCEPT ![c] = "idle"]
    /\ UNCHANGED <<ro_next_txn_ts, ro_lock, ro_rt, ro_read_marks, ro_txn_ch, ro_txn_waiters, ro_calls>>
    /\ UNCHANGED not_ro_vars

NextReadTs ==
    \/ \E c \in Readers : ReadTsLock(c)
    \/ \E c \in Readers : ReadTsBegin(c)
    \/ \E c \in Readers : ReadTsUnlock(c)
    \/ \E c \in Readers : ReadTsWaitForMark(c)
    \/ TxnMarkProcess
    \/ \E c \in Readers : ReadTsAgain(c)

(***************************************************************************)
(* DB::open (src/src/db.rs) on a directory that holds the .mem files of an *)
(* earlier run and the tables its manifest lists.  A .mem file is a WAL    *)
(* file as above, a table is its level in the manifest and the max_version *)
(* of its index.  The first read_ts() follows (src/src/txn/oracle.rs).     *)
(***************************************************************************)

\* the .mem files an earlier run leaves: no entry yet, or one frame
OpenMemFiles == {WalFile(<<>>, "zeros")} \cup {WalFile(<<f>>, "end") : f \in WalFrames}

OpenMemDirs == UNION {[1..n -> OpenMemFiles] : n \in 0..MaxMemFiles}

\* Manifest::tables with the max_version Table::open reads from each index
OpenManifests ==
    UNION {[ids -> [level : Levels, max_version : 0..MaxTs]] : ids \in SUBSET TableIds}

DbClosed ==
    [state |-> "closed", mt |-> 0, imm |-> <<>>, levels |-> <<>>, tables |-> <<>>,
     next_txn_ts |-> 0]

NoReadTs == [state |-> "none", ts |-> 0]

OpenAtRest ==
    /\ op_mem_files = <<>>
    /\ op_tables = EmptyMap
    /\ op_db = DbClosed
    /\ op_rt = NoReadTs

InitOpen ==
    /\ op_mem_files \in OpenMemDirs
    /\ op_tables \in OpenManifests
    /\ op_db = DbClosed
    /\ op_rt = NoReadTs

\* the loop over mf.tables of LevelsController::new: tables.get_mut(level)
\* pushes, else Vec::insert(level, ..), which panics past the length
RECURSIVE LevelsCollect(_, _, _, _)
LevelsCollect(manifest, order, i, tables) ==
    IF i > Len(order) THEN [res |-> "Ok", tables |-> tables]
    ELSE LET tm == manifest[order[i]]
             t == [id |-> order[i], max_version |-> tm.max_version]
         IN IF tm.level < Len(tables)
            THEN LevelsCollect(manifest, order, i + 1,
                     [tables EXCEPT ![tm.level + 1] = Append(@, t)])
            ELSE IF tm.level > Len(tables)
            THEN [res |-> "Panic", tables |-> tables]
            ELSE LevelsCollect(manifest, order, i + 1, Append(tables, <<t>>))

\* Vec::remove(index): the vector without its element at index
VecRemove(v, index) == SubSeq(v, 1, index) \o SubSeq(v, index + 2, Len(v))

\* LevelHandler::init_table: level 0 keeps its tables by id; the other
\* levels keep them by smallest key, which the tables here do not carry
init_table(level, tables) ==
    IF level # 0 THEN tables
    ELSE [k \in 1..Len(tables) |->
             CHOOSE t \in {tables[i] : i \in 1..Len(tables)} :
                 Cardinality({i \in 1..Len(tables) : tables[i].id < t.id}) = k - 1]

\* for index in 0..tables.len() { levels[index].init_table(tables.remove(index)) }:
\* the range is fixed at the start, remove panics past the shrunk vector
RECURSIVE LevelsInit(_, _, _, _)
LevelsInit(tables, index, len, levels) ==
    IF index >= len THEN [res |-> "Ok", levels |-> levels]
    ELSE IF index >= Len(tables) THEN [res |-> "Panic", levels |-> levels]
    ELSE LevelsInit(VecRemove(tables, index), index + 1, len,
                    Append(levels, init_table(index, tables[index + 1])))

\* LevelsController::new on a directory that holds the files of the
\* manifest: the tables of each level handler
LevelsControllerOpen(manifest, order) ==
    LET c == LevelsCollect(manifest, order, 1, <<>>)
    IN IF c.res = "Panic" THEN [res |-> "Panic", levels |-> <<>>]
       ELSE LevelsInit(c.tables, 0, Len(c.tables), <<>>)

\* LevelHandler::tables of every level: the TableInfo of each table
RECURSIVE LevelsTables(_)
LevelsTables(levels) ==
    IF levels = <<>> THEN <<>> ELSE Head(levels) \o LevelsTables(Tail(levels))

\* DB::open_mem_tables: each .mem file in fid order goes through
\* open_mem_table; a memtable whose skiplist is empty is deleted with its
\* file, the others are the immutable memtables
RECURSIVE OpenMemTables(_, _, _)
OpenMemTables(files, n, imm) ==
    IF n > Len(files) THEN [res |-> "Ok", imm |-> imm]
    ELSE LET lf == LogFileOpen(files[n], 2 * MEM_TABLE_SIZE)
             mt == IF lf.is_new THEN [lf.mt EXCEPT !.state = "open"]
                   ELSE UpdateSkipListMt(lf.mt, lf.file)
         IN IF mt.state = "failed" THEN [res |-> "Err", imm |-> imm]
            ELSE IF mt.sl = EmptyMap THEN OpenMemTables(files, n + 1, imm)
            ELSE OpenMemTables(files, n + 1, Append(imm, mt.max_version))

\* DB::new_mem_table: the file of next_mem_fid is not there, LogFile::open
\* creates it and the memtable is empty
NewMemTable == LogFileOpen(WalFile(<<>>, "end"), 2 * MEM_TABLE_SIZE).mt

\* the closure update of DB::max_version over a list of versions
RECURSIVE UpdateAll(_, _)
UpdateAll(max_version, vs) ==
    IF vs = <<>> THEN max_version
    ELSE UpdateAll(IF Head(vs) > max_version THEN Head(vs) ELSE max_version, Tail(vs))

\* DB::max_version(mt, imm, lc)
DbMaxVersion(mt, imm, tables) ==
    UpdateAll(UpdateAll(UpdateAll(0, <<mt>>), imm),
              [i \in 1..Len(tables) |-> tables[i].max_version])

\* Oracle::set_next_txn_ts
SetNextTxnTs(v) == v

KeepNextTs(next_txn_ts) == next_txn_ts

\* Oracle::incre_next_ts
IncreNextTs(next_txn_ts) == next_txn_ts + 1

\* DB::open with options check_options accepts, on a manifest that replays
\* and a value log that opens
DbOpen(order) ==
    /\ op_db.state = "closed"
    /\ order \in KeyOrders(DOMAIN op_tables)
    /\ LET lc == LevelsControllerOpen(op_tables, order)
           ms == OpenMemTables(op_mem_files, 1, <<>>)
           mt == NewMemTable
           tables == LevelsTables(lc.levels)
           max_version == DbMaxVersion(mt.max_version, ms.imm, tables)
       IN IF lc.res = "Panic"
          THEN /\ op_db' = [DbClosed EXCEPT !.state = "panicked"]
               /\ UNCHANGED op_mem_files
          ELSE /\ op_mem_files' = <<>>
               /\ op_db' = IF ms.res = "Err" THEN [DbClosed EXCEPT !.state = "failed"]
                           ELSE [state |-> "open", mt |-> mt.max_version,
                                 imm |-> ms.imm, levels |-> lc.levels, tables |-> tables,
                                 next_txn_ts |-> IncreNextTs(SetNextTxnTs(max_version))]
    /\ UNCHANGED <<op_tables, op_rt>>
    /\ UNCHANGED not_op_vars

\* the first Oracle::read_ts of the open store: it returns once the txn
\* watermark has reached next_txn_ts - 1
OpenReadTs ==
    /\ op_db.state = "open"
    /\ op_rt.state = "none"
    /\ LET read_ts == op_db.next_txn_ts - 1
       IN op_rt' = [state |-> IF MarkReached(TxnMarkDoneUntil, read_ts)
                              THEN "returned" ELSE "waiting",
                    ts |-> read_ts]
    /\ UNCHANGED <<op_mem_files, op_tables, op_db>>
    /\ UNCHANGED not_op_vars

\* the process of the txn watermark takes the Wait mark of that read_ts:
\* it notifies the waiter when done_until has reached the index, else it
\* keeps the waiter; nothing sends Begin or Done to the txn watermark
OpenTxnMarkProcess ==
    /\ op_rt.state = "waiting"
    /\ op_rt' = [op_rt EXCEPT !.state = IF MarkReached(TxnMarkDoneUntil, op_rt.ts)
                                        THEN "returned" ELSE "registered"]
    /\ UNCHANGED <<op_mem_files, op_tables, op_db>>
    /\ UNCHANGED not_op_vars

NextOpen ==
    \/ \E order \in UNION {KeyOrders(ids) : ids \in SUBSET TableIds} : DbOpen(order)
    \/ OpenReadTs
    \/ OpenTxnMarkProcess

(***************************************************************************)
(* The MANIFEST file (src/src/manifest.rs): the header of magic text and   *)
(* versions, then one record per change set: length, checksum and the      *)
(* encoded change set.  The last record may be cut short: have is the      *)
(* number of its bytes in the file, length the length it was written with. *)
(***************************************************************************)

\* prost's encoding of a pb::ManifestChange inside a ManifestChangeSet: tag
\* and length, then tag and varint of each field that is not its default
ChangeBytes(c) ==
    2 + (IF c.id # 0 THEN 2 ELSE 0) + (IF c.op = "Delete" THEN 2 ELSE 0)
      + (IF c.level # 0 THEN 2 ELSE 0) + (IF c.key_id # 0 THEN 2 ELSE 0)

RECURSIVE ChangeSetBytes(_)
ChangeSetBytes(cs) ==
    IF cs = <<>> THEN 0 ELSE ChangeBytes(Head(cs)) + ChangeSetBytes(Tail(cs))

NoCut == [length |-> 0, have |-> 0]

\* the offset right after record n of the file
RECURSIVE EndOfRecord(_, _)
EndOfRecord(sets, n) ==
    IF n = 0 THEN MANIFEST_HEADER_LEN
    ELSE EndOfRecord(sets, n - 1) + RECORD_HEADER_LEN + ChangeSetBytes(sets[n])

\* file.metadata().len()
ManifestSize(file) == EndOfRecord(file.sets, Len(file.sets)) + file.cut.have

RECURSIVE AllChanges(_)
AllChanges(sets) == IF sets = <<>> THEN <<>> ELSE Head(sets) \o AllChanges(Tail(sets))

\* the records of a file that was written change set by change set: each
\* change applies to the manifest of the changes before it
ManifestHistories ==
    {h \in UNION {[1..n -> ChangeSets \cup {<<>>}] : n \in 0..MaxRecords} :
        ApplyChangeSetFrom(ManifestNew, AllChanges(h)).ok}

\* the change sets whose record is cut short
CutSets == {[i \in 1..n |-> ChangeCreate(MaxTableId, MaxLevel)] : n \in 0..MaxCutChanges}

Cuts ==
    {NoCut} \cup
    {[length |-> ChangeSetBytes(cs), have |-> h] :
        cs \in CutSets, h \in 1..(RECORD_HEADER_LEN + MaxCutChanges * 6)}

NoManifestFile == [exists |-> FALSE, sets |-> <<>>, cut |-> NoCut]

ManifestFiles ==
    {NoManifestFile} \cup
    {f \in [exists : {TRUE}, sets : ManifestHistories, cut : Cuts] :
        f.cut = NoCut \/ f.cut.have < RECORD_HEADER_LEN + f.cut.length}

NoOpen ==
    [op |-> "none", before |-> NoManifestFile, res |-> "none",
     manifest |-> ManifestNew, offset |-> 0, pos |-> 0]

ManifestFileAtRest ==
    /\ mr_file = NoManifestFile
    /\ mr_last = NoOpen

InitManifestReplay ==
    /\ mr_file \in ManifestFiles
    /\ mr_last = NoOpen

\* the loop of replay_manifest_file at the record that is cut short:
\* read_u32 of the length ends the loop at UnexpectedEof; a length above
\* the file size is an error; read_u32 of the checksum and read_exact of
\* the change set end the loop at UnexpectedEof
ReplayCut(file, build, offset) ==
    IF file.cut.have < 4 THEN [res |-> "Ok", manifest |-> build, offset |-> offset]
    ELSE IF file.cut.length > ManifestSize(file)
    THEN [res |-> "Err", manifest |-> build, offset |-> offset]
    ELSE [res |-> "Ok", manifest |-> build, offset |-> offset]

\* the loop of replay_manifest_file from record n on
RECURSIVE ReplayRecords(_, _, _, _)
ReplayRecords(file, n, build, offset) ==
    IF n > Len(file.sets) THEN ReplayCut(file, build, offset)
    ELSE LET length == ChangeSetBytes(file.sets[n])
             applied == ApplyChangeSetFrom(build, file.sets[n])
         IN IF length > ManifestSize(file) \/ ~applied.ok
            THEN [res |-> "Err", manifest |-> build, offset |-> offset]
            ELSE ReplayRecords(file, n + 1, applied.mf, offset + 4 + 4 + length)

\* replay_manifest_file on a file with the magic text and the versions of
\* this build
replay_manifest_file(file) == ReplayRecords(file, 1, ManifestNew, 4 + 4)

KeepLen(file, offset) == file

\* File::set_len(offset): the records that end at or before offset, and
\* what is left of the next one
SetLen(file, offset) ==
    LET k == SetMax({n \in 0..Len(file.sets) : EndOfRecord(file.sets, n) <= offset})
        rest == offset - EndOfRecord(file.sets, k)
    IN [file EXCEPT
          !.sets = SubSeq(file.sets, 1, k),
          !.cut = IF rest = 0 THEN NoCut
                  ELSE IF k < Len(file.sets)
                  THEN [length |-> ChangeSetBytes(file.sets[k + 1]), have |-> rest]
                  ELSE [file.cut EXCEPT !.have = rest]]

\* help_rewrite(dir, Manifest::new(), ext_magic): the header and the record
\* of the change set as_changes gives, which is empty
help_rewrite == [exists |-> TRUE, sets |-> << <<>> >>, cut |-> NoCut]

\* help_open_or_create_manifest_file: a file that is not there is written
\* by help_rewrite; else replay, set_len(trunc_offset), seek(End(0))
HelpOpenOrCreateManifestFile ==
    /\ mr_last.op = "none"
    /\ IF ~mr_file.exists
       THEN /\ mr_file' = help_rewrite
            /\ mr_last' = [NoOpen EXCEPT !.op = "create", !.res = "Ok",
                                         !.pos = ManifestSize(help_rewrite)]
       ELSE LET r == replay_manifest_file(mr_file)
                cut == SetLen(mr_file, r.offset)
            IN IF r.res = "Err"
               THEN /\ mr_file' = mr_file
                    /\ mr_last' = [NoOpen EXCEPT !.op = "open", !.res = "Err",
                                                 !.before = mr_file]
               ELSE /\ mr_file' = cut
                    /\ mr_last' = [op |-> "open", before |-> mr_file, res |-> "Ok",
                                   manifest |-> r.manifest, offset |-> r.offset,
                                   pos |-> ManifestSize(cut)]
    /\ UNCHANGED not_mr_vars

\* A later run of the program finds the file as the last one left it.
ManifestRestart ==
    /\ mr_last.op # "none"
    /\ mr_last' = NoOpen
    /\ UNCHANGED mr_file
    /\ UNCHANGED not_mr_vars

NextManifestReplay ==
    \/ HelpOpenOrCreateManifestFile
    \/ ManifestRestart

(***************************************************************************)
(* DB::write_requests and DB::ensure_room_for_write (src/src/write.rs) on  *)
(* the store DB::open builds (src/src/db.rs).  A memtable is its file id,  *)
(* whether it is full and the entries put in it; a batch is a list of      *)
(* requests as the value log sees them.  The trace lists what a call did:  *)
(* the write of the value log and each put in the memtable, in order.      *)
(***************************************************************************)

\* a memtable new_mem_table makes
MemTableOf(fid) == [fid |-> fid, full |-> FALSE, puts |-> <<>>]

\* DB::open: flush_rx is a local of open that nothing keeps, so the flush
\* channel has lost its receiver when open returns
FlushRxDropped == TRUE

\* the store after DB::open on an empty directory, with an active
\* memtable that is_full() finds full or not; create_fails tells whether
\* the file system refuses the next .mem file
DbAfterOpen(full) ==
    [mt |-> [MemTableOf(1) EXCEPT !.full = full], imm |-> <<>>, flush |-> <<>>,
     next_mem_fid |-> 2, create_fails |-> FALSE]

NoWriteCall ==
    [op |-> "none", reqs |-> <<>>, before |-> DbAfterOpen(FALSE), result |-> "none",
     trace |-> <<>>]

WriteRequestsAtRest ==
    /\ wq_db = DbAfterOpen(FALSE)
    /\ wq_last = NoWriteCall

InitWriteRequests ==
    /\ \E full \in BOOLEAN, fails \in BOOLEAN :
          wq_db = [DbAfterOpen(full) EXCEPT !.create_fails = fails]
    /\ wq_last = [NoWriteCall EXCEPT !.before = wq_db]

\* mpsc::Sender::send on the flush channel: an error once the receiver is
\* dropped
FlushSend(flush, mt) ==
    IF FlushRxDropped THEN [res |-> "Err", flush |-> flush]
    ELSE [res |-> "Ok", flush |-> Append(flush, mt.fid)]

\* DB::new_mem_table: the error of open_mem_table becomes its error
new_mem_table(db) ==
    IF db.create_fails THEN [res |-> "Err", mt |-> db.mt]
    ELSE [res |-> "Ok", mt |-> MemTableOf(db.next_mem_fid)]

\* DB::ensure_room_for_write: the store after it and its result
ensure_room_for_write(db) ==
    IF ~db.mt.full THEN [res |-> "Ok", db |-> db]
    ELSE IF new_mem_table(db).res = "Err" THEN [res |-> "Err", db |-> db]
    ELSE LET mt_new == new_mem_table(db).mt
             replaced == [db EXCEPT !.mt = mt_new, !.next_mem_fid = @ + 1]
             sent == FlushSend(db.flush, db.mt)
         IN IF sent.res = "Err" THEN [res |-> "Err", db |-> replaced]
            ELSE [res |-> "Ok",
                  db |-> [replaced EXCEPT !.flush = sent.flush,
                                          !.imm = Append(@, db.mt.fid)]]

\* DB::write_to_memtable: one put for each entry of the request
RECURSIVE write_to_memtable(_, _, _, _, _)
write_to_memtable(db, reqs, r, e, trace) ==
    IF e > Len(reqs[r]) THEN [db |-> db, trace |-> trace]
    ELSE write_to_memtable([db EXCEPT !.mt.puts = Append(@, reqs[r][e].value_len)],
                           reqs, r, e + 1,
                           Append(trace, [ev |-> "put", req |-> r, res |-> "Ok"]))

\* the loop of write_requests over the requests: ensure_room_for_write and
\* write_to_memtable for each request that has entries, up to the first
\* error
RECURSIVE MemtableLoop(_, _, _, _)
MemtableLoop(db, reqs, r, trace) ==
    IF r > Len(reqs) THEN [res |-> "Ok", db |-> db, trace |-> trace]
    ELSE IF Len(reqs[r]) = 0 THEN MemtableLoop(db, reqs, r + 1, trace)
    ELSE LET room == ensure_room_for_write(db)
             put == write_to_memtable(room.db, reqs, r, 1, trace)
         IN IF room.res = "Err" THEN [res |-> "Err", db |-> room.db, trace |-> trace]
            ELSE MemtableLoop(put.db, reqs, r + 1, put.trace)

\* the memtable first, the value log after it
MemtableBeforeVlog(db, reqs) ==
    LET mem == MemtableLoop(db, reqs, 1, <<>>)
    IN [res |-> ValueLogWrite(reqs), db |-> mem.db,
        trace |-> Append(mem.trace, [ev |-> "vlog_write", req |-> 0,
                                     res |-> ValueLogWrite(reqs)])]

\* DB::write_requests: nothing for no request; else vlog.write, and the
\* puts in the memtable once it has returned Ok
write_requests(db, reqs) ==
    IF Len(reqs) = 0 THEN [res |-> "Ok", db |-> db, trace |-> <<>>]
    ELSE LET vlog == ValueLogWrite(reqs)
             written == <<[ev |-> "vlog_write", req |-> 0, res |-> vlog]>>
         IN IF vlog # "Ok" THEN [res |-> vlog, db |-> db, trace |-> written]
            ELSE MemtableLoop(db, reqs, 1, written)

\* a call of write_requests on a batch
WriteRequestsCall(reqs) ==
    /\ wq_last.op = "none"
    /\ LET r == write_requests(wq_db, reqs)
       IN /\ wq_db' = r.db
          /\ wq_last' = [op |-> "write_requests", reqs |-> reqs, before |-> wq_db,
                         result |-> r.res, trace |-> r.trace]
    /\ UNCHANGED not_wq_vars

\* a call of ensure_room_for_write
EnsureRoomForWrite ==
    /\ wq_last.op = "none"
    /\ LET r == ensure_room_for_write(wq_db)
       IN /\ wq_db' = r.db
          /\ wq_last' = [op |-> "ensure_room_for_write", reqs |-> <<>>,
                         before |-> wq_db, result |-> r.res, trace |-> <<>>]
    /\ UNCHANGED not_wq_vars

\* the call has returned and the next one can follow
WriteCallReturns ==
    /\ wq_last.op # "none"
    /\ wq_last' = [NoWriteCall EXCEPT !.before = wq_db]
    /\ UNCHANGED wq_db
    /\ UNCHANGED not_wq_vars

NextWriteRequests ==
    \/ \E reqs \in VlogRequestLists : WriteRequestsCall(reqs)
    \/ EnsureRoomForWrite
    \/ WriteCallReturns

(***************************************************************************)
(* DB::do_writes (src/src/write.rs) under a load that fills its buffer,    *)
(* and at shutdown.  Requests are counted, not told apart: lp_ch holds the *)
(* number of requests in the write channel, lp_buf the number in           *)
(* write_req_buf, lp_running the number of write_reqs tasks the loop has   *)
(* started and that have not finished.                                     *)
(***************************************************************************)

\* the numbers of calls of send_to_write_tx that follow one another
BurstSizes == {1, KV_WRITE_CH_CAPACITY}

\* DBInner keeps write_tx and do_writes keeps the DB, so the write channel
\* has a sender for as long as the loop runs
WriteTxDropped == FALSE

\* do_writes before its loop: notify_send.notify_one() leaves one permit;
\* nothing has called notify_one on close
InitLoop ==
    /\ lp_ch = 0
    /\ lp_buf = 0
    /\ lp_permit = TRUE
    /\ lp_close = "idle"
    /\ lp_pc = "outer"
    /\ lp_running = 0
    /\ lp_sends = 0

\* n calls of DB::send_to_write_tx with block_writes false, each of which
\* finds room in the write channel
LoopSend(n) ==
    /\ lp_sends < MaxSends
    /\ lp_ch + n <= KV_WRITE_CH_CAPACITY
    /\ lp_ch' = lp_ch + n
    /\ lp_sends' = lp_sends + 1
    /\ UNCHANGED <<lp_buf, lp_permit, lp_close, lp_pc, lp_running>>
    /\ UNCHANGED not_lp_vars

\* do_writes: Some(req) = write_rx.recv() at either select, taken for the
\* requests in the channel one after another, and the test at the top of
\* the inner loop after each push: at 3 * KV_WRITE_CH_CAPACITY requests
\* notify_recv.notified() is made and dropped without an await, and
\* write_reqs is spawned on the buffer
LoopRecv ==
    /\ lp_pc \in {"outer", "inner"}
    /\ lp_ch > 0
    /\ LET k == Min2(lp_ch, 3 * KV_WRITE_CH_CAPACITY - lp_buf)
       IN /\ lp_ch' = lp_ch - k
          /\ IF lp_buf + k >= 3 * KV_WRITE_CH_CAPACITY
             THEN /\ lp_running' = lp_running + 1
                  /\ lp_buf' = 0
                  /\ lp_pc' = "outer"
             ELSE /\ lp_buf' = lp_buf + k
                  /\ lp_pc' = "inner"
                  /\ UNCHANGED lp_running
    /\ UNCHANGED <<lp_permit, lp_close, lp_sends>>
    /\ UNCHANGED not_lp_vars

\* do_writes: notify_recv.notified() at the inner select takes the permit
\* and write_reqs is spawned on the buffer
LoopNotified ==
    /\ lp_pc = "inner"
    /\ lp_permit
    /\ lp_permit' = FALSE
    /\ lp_running' = lp_running + 1
    /\ lp_buf' = 0
    /\ lp_pc' = "outer"
    /\ UNCHANGED <<lp_ch, lp_close, lp_sends>>
    /\ UNCHANGED not_lp_vars

\* a spawned write_reqs runs: write_requests on its batch, which holds a
\* request, then notify_send.notify_one() unless write_requests panicked
LoopWriteReqs ==
    /\ lp_running > 0
    /\ lp_running' = lp_running - 1
    /\ lp_permit' = IF WriteRequests(<<1>>) = "Panic" THEN lp_permit ELSE TRUE
    /\ UNCHANGED <<lp_ch, lp_buf, lp_close, lp_pc, lp_sends>>
    /\ UNCHANGED not_lp_vars

\* the holder of the close notifier calls notify_one
LoopClose ==
    /\ lp_close = "idle"
    /\ lp_close' = "fired"
    /\ UNCHANGED <<lp_ch, lp_buf, lp_permit, lp_pc, lp_running, lp_sends>>
    /\ UNCHANGED not_lp_vars

\* do_writes: close.notified() at either select
LoopTakeClose ==
    /\ lp_pc \in {"outer", "inner"}
    /\ lp_close = "fired"
    /\ lp_close' = "taken"
    /\ lp_pc' = "draining"
    /\ UNCHANGED <<lp_ch, lp_buf, lp_permit, lp_running, lp_sends>>
    /\ UNCHANGED not_lp_vars

\* do_writes after close.notified(): while let Some(req) =
\* write_rx.recv().await pushes the requests of the channel and then waits
\* for the next one; recv gives None only on a channel without senders, and
\* then write_reqs runs on the buffer and the loop returns
LoopDrain ==
    /\ lp_pc = "draining"
    /\ lp_ch > 0 \/ WriteTxDropped
    /\ IF lp_ch > 0
       THEN /\ lp_buf' = lp_buf + lp_ch
            /\ lp_ch' = 0
            /\ UNCHANGED <<lp_pc, lp_permit>>
       ELSE /\ lp_buf' = 0
            /\ lp_pc' = "returned"
            /\ lp_permit' = IF WriteRequests(<<1>>) = "Panic" THEN lp_permit ELSE TRUE
            /\ UNCHANGED lp_ch
    /\ UNCHANGED <<lp_close, lp_running, lp_sends>>
    /\ UNCHANGED not_lp_vars

NextLoop ==
    \/ \E n \in BurstSizes : LoopSend(n)
    \/ LoopRecv
    \/ LoopNotified
    \/ LoopWriteReqs
    \/ LoopClose
    \/ LoopTakeClose
    \/ LoopDrain

(***************************************************************************)
(* The size of the discard stats file (src/src/vlog/discard.rs) as fids    *)
(* are added.  The cells are counted, not told apart: dg_len is the length *)
(* of the map in bytes, dg_next_empty_slot the number of occupied cells.   *)
(***************************************************************************)

\* DiscardStatsInner::max_slot: the length of the map, in bytes
MaxSlot(len) == len

\* the loop of update that doubles the map until next_empty_slot is below
\* max_slot
RECURSIVE GrowMap(_, _)
GrowMap(len, next_empty_slot) ==
    IF next_empty_slot < MaxSlot(len) THEN len ELSE GrowMap(len * 2, next_empty_slot)

\* get and set index the map with offset..offset + 8
InMap(len, offset) == offset + 8 <= len

NoGrowCall == [op |-> "none", n |-> 0, result |-> "none"]

\* the numbers of update calls, each on a fid that is not there, that
\* follow one another
InsertBursts == {1, GrowBurst}

\* DiscardStatsInner::new on a directory without the file: open_mmap_file
\* makes it DISCARD_MAP_SIZE bytes long, and no cell is occupied
InitDiscardGrow ==
    /\ dg_len = DISCARD_MAP_SIZE
    /\ dg_next_empty_slot = 0
    /\ dg_last = NoGrowCall

\* DiscardStatsInner::update(fid, discard) with discard > 0 on a fid that
\* is not there: the cell written at next_empty_slot, the count, the
\* doubling loop and zero_out.  An index past the map panics.
DgInsert(st) ==
    LET idx == st.next_empty_slot
        grown == GrowMap(st.len, idx + 1)
    IN IF ~InMap(st.len, idx * 16 + 8)
       THEN [st EXCEPT !.result = "Panic"]
       ELSE [len |-> grown, next_empty_slot |-> idx + 1,
             result |-> IF InMap(grown, (idx + 1) * 16 + 8) THEN "Ok" ELSE "Panic"]

\* n such calls one after another, up to the one that panics
RECURSIVE DgInserts(_, _)
DgInserts(st, n) ==
    IF n = 1 THEN DgInsert(st)
    ELSE LET half == DgInserts(st, n \div 2)
         IN IF half.result = "Panic" THEN half ELSE DgInserts(half, n - n \div 2)

DiscardGrowUpdate(n) ==
    /\ dg_last.result # "Panic"
    /\ dg_last.n < MaxGrowCalls
    /\ LET st == DgInserts([len |-> dg_len, next_empty_slot |-> dg_next_empty_slot,
                            result |-> "Ok"], n)
       IN /\ dg_len' = st.len
          /\ dg_next_empty_slot' = st.next_empty_slot
          /\ dg_last' = [op |-> "update", n |-> dg_last.n + 1, result |-> st.result]
    /\ UNCHANGED not_dg_vars

NextDiscardGrow == \E n \in InsertBursts : DiscardGrowUpdate(n)

(***************************************************************************)
(* LogFile::entry (src/src/memtable.rs) and Header::decode_from            *)
(* (src/src/entry.rs) on the last entry of a log.  The entry is the        *)
(* lengths its header holds, whether its CRC matches and the number of its *)
(* bytes that are in the input.                                            *)
(***************************************************************************)

\* the bytes of the varint of n
RECURSIVE VarintLen(_)
VarintLen(n) == IF n < 128 THEN 1 ELSE 1 + VarintLen(n \div 128)

\* meta, user_meta and the varints of key_len, value_len and expires_at,
\* which is 0
EntryHeaderLen(e) == 2 + VarintLen(e.key_len) + VarintLen(e.value_len) + VarintLen(0)

EntryLen(e) == EntryHeaderLen(e) + e.key_len + e.value_len + CRC_SIZE

\* the entries at the end of a log: a key of 1 or 3 bytes or a key length
\* above 1 << 16, with have of the bytes of the entry in the input
LastEntries ==
    {e \in [key_len : {1, 3, MAX_KEY_LEN + 1}, value_len : {0, 2}, crc_ok : BOOLEAN,
            have : 0..MaxHave] : e.have <= EntryLen(e)}

NoEntry == [key_len |-> 0, value_len |-> 0, crc_ok |-> FALSE, have |-> 0]

NoDecode == [entry |-> "none", iterate |-> "none"]

EntryAtRest ==
    /\ en_input = NoEntry
    /\ en_last = NoDecode

InitEntry ==
    /\ en_input \in LastEntries
    /\ en_last = NoDecode

\* Header::decode_from: read_exact of the two meta bytes gives VLogTruncate
\* at the end of the input; the error of each read_varint is wrapped in a
\* new anyhow error
HeaderDecodeFrom(e) ==
    IF e.have < 2 THEN "VLogTruncate"
    ELSE IF e.have < 2 + VarintLen(e.key_len) THEN "read_varint(key_len) error"
    ELSE IF e.have < 2 + VarintLen(e.key_len) + VarintLen(e.value_len)
    THEN "read_varint(value_len) error"
    ELSE IF e.have < EntryHeaderLen(e) THEN "read_varint(expires_at) error"
    ELSE "Ok"

\* LogFile::entry
LogFileEntry(e) ==
    IF HeaderDecodeFrom(e) # "Ok" THEN HeaderDecodeFrom(e)
    ELSE IF e.key_len > MAX_KEY_LEN THEN "VLogTruncate"
    ELSE IF e.have < EntryHeaderLen(e) + e.key_len + e.value_len THEN "VLogTruncate"
    ELSE IF e.have < EntryLen(e) THEN "VLogTruncate"
    ELSE IF ~e.crc_ok THEN "VLogTruncate"
    ELSE "Ok"

\* the match on self.entry in the loop of LogFile::iterate: VLogTruncate
\* ends the loop, any other error is returned
IterateOnEntry(r) ==
    IF r = "Ok" THEN "Next" ELSE IF r = "VLogTruncate" THEN "Ok" ELSE "Err"

\* LogFile::iterate reaches the last entry of the log
DecodeLastEntry ==
    /\ en_last = NoDecode
    /\ en_last' = [entry |-> LogFileEntry(en_input),
                   iterate |-> IterateOnEntry(LogFileEntry(en_input))]
    /\ UNCHANGED en_input
    /\ UNCHANGED not_en_vars

NextEntry == DecodeLastEntry

(***************************************************************************)
(* Properties of the watermark.                                            *)
(***************************************************************************)

\* C6: done_until advances to v only when, for every index j <= v, the
\* consumer has processed at least as many Done(j) as Begin(j).
C6_AdvanceOnlyWhenDone ==
    [][wm_done_until' # wm_done_until =>
         \A j \in Indices : j <= wm_done_until' => ProcDone(j)' >= ProcBegin(j)']_wm_vars

\* the callers of wait_for_mark whose Wait command the consumer has taken
\* from the channel
Registered(c) ==
    /\ wm_caller[c] = "waiting"
    /\ \A n \in 1..Len(wm_ch) : wm_ch[n] # MarkWait(wm_wait_index[c], c)

\* C7: a caller waiting on index i is not signalled while done_until < i,
\* and a caller whose Wait(i) the consumer holds is signalled as soon as
\* done_until >= i, whatever the number of waiters and the size of the
\* advance.
C7_WaitersSignalled ==
    \A c \in Callers :
        /\ wm_notified[c] => wm_done_until >= wm_wait_index[c]
        /\ (Registered(c) /\ wm_done_until >= wm_wait_index[c]) => wm_notified[c]

\* C8: done_until is non-decreasing over every sequence of commands.
C8_DoneUntilMonotonic == [][wm_done_until' >= wm_done_until]_wm_vars

\* C8 witness: done_until has advanced twice, to 1 and then to 2.
C8_Witness ==
    /\ wm_done_until = 2
    /\ ProcBegin(1) > 0
    /\ ProcBegin(2) > 0

\* the indices begun so far
Begun == {i \in Indices : wm_sent_begin[i] > 0}

\* C9: once the consumer has processed a balanced sequence of begin and done
\* commands, done_until equals the maximum index ever begun.
C9_BalancedReachesMax ==
    (/\ wm_task = "running"
     /\ wm_ch = <<>>
     /\ Begun # {}
     /\ \A i \in Indices : wm_sent_begin[i] = wm_sent_done[i])
    => wm_done_until = SetMax(Begun)

\* C36: over every sequence of Begin, Done and Wait commands in which each
\* done(i) follows a begin(i), the consumer never aborts: neither the
\* assertion done_until <= index nor the lookup of a waiter ends the task.
C36_ConsumerNeverAborts == wm_task = "running"

(***************************************************************************)
(* Properties of the transactions.                                         *)
(***************************************************************************)

\* the keys a transaction has written, by its accepted writes
KeysWritten(t) == {txn_writes[t][n].key : n \in 1..Len(txn_writes[t])}

\* commit was called on t1 and later on t2
CommittedInOrder(t1, t2) ==
    \E m, n \in 1..Len(commit_log) : m < n /\ commit_log[m] = t1 /\ commit_log[n] = t2

\* C1: of two update transactions with the same read_ts, T1 committing a
\* write to k and T2 committing after it, T2's commit returns Conflict when
\* T2 has read k; when T2 did not read k both commits succeed and T2's commit
\* timestamp is greater than T1's.
C1_ConflictOrOrderedCommits ==
    \A t1, t2 \in Txns :
        (/\ CommittedInOrder(t1, t2)
         /\ txn[t1].update /\ txn[t2].update
         /\ txn[t1].read_ts = txn[t2].read_ts)
        => \A k \in KeysWritten(t1) :
              IF k \in txn_reads[t2]
              THEN commit_result[t2] = "Conflict"
              ELSE /\ commit_result[t1] = "Ok"
                   /\ commit_result[t2] = "Ok"
                   /\ commit_ts[t2] > commit_ts[t1]

\* a step in which transaction t made a call of set, delete or set_entry
ModifyStep(t) ==
    /\ txn_calls' = txn_calls + 1
    /\ \A u \in Txns : txn'[u].state = txn[u].state
    /\ txn_last'.txn = t
    /\ txn_last'.op \in {"set", "delete", "set_entry"}

\* the entry handed to the last call of set, delete or set_entry
EntryOf(call) ==
    [key |-> call.key, value |-> call.value, expires_at |-> call.expires_at,
     meta |-> call.meta, value_threshold |-> 0]

\* the key and the value are within the size limits and the key is not banned
WithinLimits(e) ==
    /\ Len(e.key) <= MAX_KEY_SIZE
    /\ Len(e.value) <= opt.value_log_file_size
    /\ ~IsBanned(e.key, opt.namespace_offset, banned)

C40_ErrorLeavesTxnUnchanged ==
    [][\A t \in Txns : (ModifyStep(t) /\ txn_last'.result # "Ok") =>
         /\ txn'[t].pending_writes = txn[t].pending_writes
         /\ txn'[t].conflict_keys = txn[t].conflict_keys
         /\ txn'[t].size = txn[t].size
         /\ txn'[t].count = txn[t].count
      ]_txn_vars

\* C40 witness: a transaction that holds one accepted write, with its
\* conflict key, size and count, had a later write refused.
C40_Witness ==
    /\ txn_last.op \in {"set", "delete", "set_entry"}
    /\ txn_last.result \notin {"Ok", "none"}
    /\ txn[txn_last.txn].count = 2
    /\ txn[txn_last.txn].conflict_keys # {}
    /\ Cardinality(DOMAIN txn[txn_last.txn].pending_writes) = 1

\* a step in which transaction t made a call of get
GetStep(t) ==
    /\ txn_calls' = txn_calls + 1
    /\ \A u \in Txns : txn'[u].state = txn[u].state
    /\ txn_last'.txn = t
    /\ txn_last'.op = "get"

\* the places in the accepted writes h of the writes to key k
WritesTo(h, k) == {n \in 1..Len(h) : h[n].key = k}

\* the accepted writes h were all made by set and delete
OnlySetDelete(h) == \A n \in 1..Len(h) : h[n].op \in {"set", "delete"}

\* C3: in an update transaction whose accepted writes were made by set and
\* delete, get(k) for a key k with a pending write returns the value of the
\* most recent write to k, or KeyNotFound when that write is a delete, and
\* does not reach the read of the database.
C3_GetReadsPendingWrites ==
    [][\A t \in Txns :
         (/\ GetStep(t)
          /\ txn[t].update /\ ~txn[t].discarded
          /\ OnlySetDelete(txn_writes[t])
          /\ WritesTo(txn_writes[t], txn_last'.key) # {})
         => LET h == txn_writes[t]
                w == h[SetMax(WritesTo(h, txn_last'.key))]
            IN /\ ~txn_last'.db_read
               /\ IF w.op = "delete"
                  THEN txn_last'.result = "KeyNotFound"
                  ELSE /\ txn_last'.result = "Ok"
                       /\ txn_last'.got = w.value
      ]_txn_vars

\* C3 witness: get returned the value set after a delete of the same key.
C3_Witness ==
    /\ txn_last.op = "get"
    /\ txn_last.result = "Ok"
    /\ LET h == txn_writes[txn_last.txn] IN
       /\ OnlySetDelete(h)
       /\ \E m, n \in WritesTo(h, txn_last.key) :
             m < n /\ h[m].op = "delete" /\ h[n].op = "set"
                   /\ n = SetMax(WritesTo(h, txn_last.key))
                   /\ txn_last.got = h[n].value

\* the places in rm_log of the marks of a kind sent by transaction t
MarksOf(t, kind) ==
    {n \in 1..Len(rm_log) : rm_log[n].txn = t /\ rm_log[n].kind = kind}

\* C4: once a transaction has been dropped, after any number of discard
\* calls, Done(read_ts) has been sent to the read watermark exactly once, and
\* after the Begin(read_ts) of new_transaction.
C4_DoneSentOnce ==
    \A t \in Txns :
        txn[t].state = "dropped"
        => /\ Cardinality(MarksOf(t, "Done")) = 1
           /\ \A d \in MarksOf(t, "Done") :
                 /\ rm_log[d].index = txn[t].read_ts
                 /\ \E b \in MarksOf(t, "Begin") :
                       b < d /\ rm_log[b].index = txn[t].read_ts

(***************************************************************************)
(* Properties of the write loop.                                           *)
(***************************************************************************)

\* C5: a request whose batch write_requests has finished with has received
\* one result on its one-shot reply channel: Ok when the batch was written,
\* the error when the write failed.
C5_EveryRequestReplied ==
    \A r \in Reqs :
        wr_req[r].place = "dropped"
        => IF wr_req[r].batch = "Ok"
           THEN wr_req[r].reply = "Ok"
           ELSE wr_req[r].reply = "Err"

(***************************************************************************)
(* Properties of the memtable and its WAL.                                 *)
(***************************************************************************)

\* the skip list that holds the entries of the frames in applied
SkipListOf(applied) == Replay(applied, NoMemTable).sl

\* C10: the open of a WAL whose tail is a cut or corrupt frame succeeds,
\* the map holds the entries of the frames before the valid end offset, and
\* the file has been cut to that offset.
C10_OpenRecoversWal ==
    (/\ wal_mt.state \in {"open", "failed"}
     /\ wal_orig.tail \in {"cut_body", "bad_crc"})
    => /\ wal_mt.state = "open"
       /\ wal_mt.sl = SkipListOf(Iterate(wal_orig).applied)
       /\ wal_disk.exists
       /\ wal_disk.size = Iterate(wal_orig).end_off

\* the frame is neither an entry of a transaction nor the end of one
IsStandalone(f) == ~MetaContains(f.meta, BIT_TXN) /\ ~MetaContains(f.meta, BIT_FIN_TXN)

\* the frames of one whole transaction: entries flagged TXN that carry the
\* same commit timestamp, then a FIN_TXN record whose value is that
\* timestamp in decimal digits; or one entry outside a transaction
IsUnit(s) ==
    \/ Len(s) = 1 /\ IsStandalone(s[1])
    \/ /\ Len(s) >= 2
       /\ MetaContains(s[Len(s)].meta, BIT_FIN_TXN)
       /\ ~MetaContains(s[Len(s)].meta, BIT_TXN)
       /\ \E ts \in 1..(MaxTs + 1) :
             /\ s[Len(s)].value = DecimalDigits(ts)
             /\ \A i \in 1..(Len(s) - 1) :
                   MetaContains(s[i].meta, BIT_TXN) /\ s[i].key.ts = ts

RECURSIVE IsUnits(_)
IsUnits(s) ==
    \/ s = <<>>
    \/ \E k \in 1..Len(s) : IsUnit(SubSeq(s, 1, k)) /\ IsUnits(SubSeq(s, k + 1, Len(s)))

\* the number of frames up to the end of the last whole transaction or
\* entry outside a transaction that iteration reaches
Accepted(frames) ==
    SetMax({m \in 0..Len(frames) : IsUnits(SubSeq(frames, 1, m))})

NotFinTxn(f) == ~MetaContains(f.meta, BIT_FIN_TXN) \/ MetaContains(f.meta, BIT_TXN)

\* the entries among the accepted frames, in log order
Deliverable(frames) == SelectSeq(SubSeq(frames, 1, Accepted(frames)), NotFinTxn)

\* C28: iteration hands the entries of a transaction to the callback only
\* when the FIN_TXN record of their commit timestamp is read, all of them and
\* in log order; at entries of another timestamp, a FIN_TXN of another
\* timestamp or an entry outside the open transaction it stops and hands
\* over none of the entries it holds.
C28_TxnDeliveredAtFin ==
    wal_mt.via = "update_skip_list"
    => /\ Iterate(wal_orig).applied = Deliverable(wal_orig.frames)
       /\ wal_mt.sl = SkipListOf(Deliverable(wal_orig.frames))

\* a log of a whole transaction of two entries has been iterated
C28_Witness ==
    /\ wal_mt.via = "update_skip_list"
    /\ Len(wal_orig.frames) = 3
    /\ Len(Iterate(wal_orig).applied) = 2
    /\ MetaContains(wal_orig.frames[1].meta, BIT_TXN)

\* C29: the offset iteration returns is the offset right after the last
\* FIN_TXN record that closed a transaction or the last entry accepted
\* outside a transaction, whichever is later in the log; no byte of an
\* unfinished transaction lies before it.
C29_ValidEndOffset ==
    (/\ wal_mt.via = "update_skip_list"
     /\ Iterate(wal_orig).result = "Ok"
     /\ Accepted(wal_orig.frames) > 0)
    => Iterate(wal_orig).end_off =
          VLOG_HEADER_SIZE
          + FramesLen(SubSeq(wal_orig.frames, 1, Accepted(wal_orig.frames)))

\* a log of one entry and then an unfinished transaction has been iterated
C29_Witness ==
    /\ wal_mt.via = "update_skip_list"
    /\ Iterate(wal_orig).result = "Ok"
    /\ Len(wal_orig.frames) = 3
    /\ Accepted(wal_orig.frames) = 1
    /\ MetaContains(wal_orig.frames[2].meta, BIT_TXN)
    /\ Iterate(wal_orig).end_off = VLOG_HEADER_SIZE + FrameLen(wal_orig.frames[1])

\* C39: the offset iteration returns is never below the 20-byte header of
\* the file; for a log with no complete record it is 20.
C39_OffsetNotBelowHeader ==
    (wal_mt.via = "update_skip_list" /\ Iterate(wal_orig).result = "Ok")
    => /\ Iterate(wal_orig).end_off >= VLOG_HEADER_SIZE
       /\ Accepted(wal_orig.frames) = 0 => Iterate(wal_orig).end_off = VLOG_HEADER_SIZE

(***************************************************************************)
(* Properties of the manifest.                                             *)
(***************************************************************************)

\* the last change set was Create{id} and then Delete{id}
CreateThenDelete(id) ==
    /\ Len(mf_last.changes) = 2
    /\ mf_last.changes[1].op = "Create" /\ mf_last.changes[1].id = id
    /\ mf_last.changes[2] = ChangeDelete(id)
    /\ id \notin DOMAIN mf_before.tables

\* C11: Create{id} and then Delete{id} leave id absent from the tables map
\* and from the table set of every level, with one more creation and one
\* more deletion counted; a Create of an id that is present is rejected.
C11_CreateThenDeleteCounted ==
    \A id \in TableIds :
        /\ CreateThenDelete(id)
           => /\ mf_last.ok
              /\ id \notin DOMAIN mf_manifest.tables
              /\ \A l \in 1..Len(mf_manifest.levels) : id \notin mf_manifest.levels[l]
              /\ mf_manifest.creations = mf_before.creations + 1
              /\ mf_manifest.deletions = mf_before.deletions + 1
        /\ (/\ Len(mf_last.changes) = 1
            /\ mf_last.changes[1].op = "Create" /\ mf_last.changes[1].id = id
            /\ id \in DOMAIN mf_before.tables)
           => ~mf_last.ok

\* C12: a change set with a rejected change leaves the manifest as it was
\* before the change set.
C12_ChangeSetAtomic == ~mf_last.ok => mf_manifest = mf_before

\* the levels whose table set holds the id
LevelsHolding(mf, id) == {l \in 1..Len(mf.levels) : id \in mf.levels[l]}

\* C38: after change sets that were all applied, an id is in the tables map
\* with level L if and only if it is in the table set of level L, and no id
\* is in the table set of more than one level.
C38_TablesMatchLevels ==
    mf_last.ok =>
        \A id \in TableIds :
            /\ LevelsHolding(mf_manifest, id) =
                  IF id \in DOMAIN mf_manifest.tables
                  THEN {mf_manifest.tables[id].level + 1}
                  ELSE {}
            /\ Cardinality(LevelsHolding(mf_manifest, id)) <= 1

(***************************************************************************)
(* Properties of the discard stats.                                        *)
(***************************************************************************)

\* the occupied cells, and the discarded bytes of a fid among them
Occupied == {ds_file[i] : i \in 1..ds_next_empty_slot}

HasFid(fid) == \E c \in Occupied : c.fid = fid

BytesOf(fid) == (CHOOSE c \in Occupied : c.fid = fid).val

\* the step is an update(fid, discard) call
UpdateStep(fid, discard) ==
    /\ ds_open
    /\ ds_last'.op = "update" /\ ds_last'.fid = fid /\ ds_last'.discard = discard

\* update on a fid that is not there: (fid, discard) inserted when
\* discard > 0, else nothing changed
AbsentUpdate(fid, discard) ==
    IF discard > 0
    THEN HasFid(fid)' /\ BytesOf(fid)' = discard /\ ds_last'.result = discard
    ELSE ds_file' = ds_file /\ ds_next_empty_slot' = ds_next_empty_slot

C14_NegativeResets ==
    [][\A fid \in Fids, discard \in Discards :
          (UpdateStep(fid, discard) /\ discard < 0 /\ HasFid(fid))
          => /\ HasFid(fid)' /\ BytesOf(fid)' = 0
             /\ ds_last'.result = 0
             /\ \A g \in Fids \ {fid} :
                   /\ HasFid(g)' = HasFid(g)
                   /\ HasFid(g) => BytesOf(g)' = BytesOf(g)]_ds_vars

\* C14 witness: a fid that held 2 bytes was reset by update(fid, -1) while
\* another fid holds bytes
C14_Witness ==
    /\ ds_last.op = "update" /\ ds_last.discard < 0 /\ ds_last.was = 2
    /\ HasFid(ds_last.fid) /\ BytesOf(ds_last.fid) = 0
    /\ \E c \in Occupied : c.fid # ds_last.fid /\ c.val > 0

\* C15: after the file is opened again, update(fid, 0) returns for every
\* fid what it returned before the close, and changes nothing.
C15_ReopenKeepsPairs ==
    ds_last.op = "new"
    => \A fid \in Fids :
          /\ DsUpdateResult(ds_file, ds_next_empty_slot, fid, 0) = ds_at_close[fid]
          /\ DsUpdateCells(ds_file, ds_next_empty_slot, fid, 0) = ds_file
          /\ DsUpdateSlot(ds_file, ds_next_empty_slot, fid, 0) = ds_next_empty_slot

\* C31: after any update calls the occupied cells, those of the slots below
\* next_empty_slot, are in strictly increasing order of fid, so no fid is
\* there twice, and the cell at next_empty_slot is zero.
C31_SortedDistinctZeroEnd ==
    (ds_open /\ ds_last.op = "update") =>
        /\ \A slot \in 1..(ds_next_empty_slot - 1) :
              CellAt(ds_file, slot - 1).fid < CellAt(ds_file, slot).fid
        /\ CellAt(ds_file, ds_next_empty_slot) = ZeroCell

(***************************************************************************)
(* Properties of the table iterator.                                       *)
(***************************************************************************)
RECURSIVE Reversed(_)
Reversed(s) == IF Len(s) = 0 THEN <<>> ELSE Reversed(Tail(s)) \o <<Head(s)>>

IsPrefixOf(s, all) == Len(s) <= Len(all) /\ s = SubSeq(all, 1, Len(s))

\* The walk has seen, in the order given, the first keys of it and stands on
\* the last one seen; when it ended it has seen all of them.
WalkFollows(order) ==
    /\ IsPrefixOf(tb_walk.seen, order)
    /\ ~tb_walk.ended =>
          /\ IterValid(tb_table, tb_it)
          /\ tb_it.bi.key = tb_walk.seen[Len(tb_walk.seen)]
    /\ tb_walk.ended =>
          /\ tb_walk.seen = order
          /\ tb_last.res = "false"

\* C16: a table built from a strictly increasing stream of keys, whatever
\* the number of blocks, is walked by seek_to_first and next through exactly
\* those keys in insertion order and is then invalid, is walked by
\* seek_to_last and prev through the same keys in reverse order until prev
\* returns false, and has the first key added as smallest and the last key
\* added as biggest.
C16_WalksVisitEveryKey ==
    /\ tb_table.smallest = tb_keys[1]
    /\ tb_table.biggest = tb_keys[Len(tb_keys)]
    /\ tb_walk.kind = "forward" =>
          /\ WalkFollows(tb_keys)
          /\ tb_walk.ended => ~IterValid(tb_table, tb_it)
    /\ tb_walk.kind = "backward" => WalkFollows(Reversed(tb_keys))

C16_Witness ==
    /\ tb_walk.kind = "backward"
    /\ tb_walk.ended
    /\ Len(tb_walk.seen) = MaxKeys
    /\ Len(tb_table.blocks) = 2

KeysNotBelow(key) == {k \in TableKeys : \E i \in 1..Len(tb_keys) : tb_keys[i] = k /\ ~BytesLess(k, key)}

\* C17: seek(k) returns true and stands on the smallest key >= k whenever the
\* table holds such a key, and returns false, leaving the iterator invalid,
\* only when every key of the table is smaller than k.
C17_SeekFindsSmallestNotBelow ==
    tb_last.op = "seek" =>
        IF KeysNotBelow(tb_last.key) # {}
        THEN /\ tb_last.res = "true"
             /\ IterValid(tb_table, tb_it)
             /\ tb_it.bi.key = MinKey(KeysNotBelow(tb_last.key))
        ELSE /\ tb_last.res = "false"
             /\ ~IterValid(tb_table, tb_it)

(***************************************************************************)
(* Properties of is_banned.                                                *)
(***************************************************************************)
\* The 8 bytes of the key at the offset, read as a big-endian number.
NamespaceAt(key, off) == FromBeBytes(SubSeq(key, off + 1, off + 8))

\* C18: with namespace_offset = off >= 0, a key of at least off + 8 bytes
\* whose 8 bytes at off, read big-endian, are in the banned set is rejected
\* with BannedKey; a key shorter than off + 8 bytes, and any key when
\* namespace_offset < 0, passes.
C18_BannedNamespaceRejected ==
    bn_result # "none" =>
        /\ (/\ bn_namespace_offset >= 0
            /\ Len(bn_key) >= bn_namespace_offset + 8
            /\ NamespaceAt(bn_key, bn_namespace_offset) \in bn_banned)
              => bn_result = "BannedKey"
        /\ (bn_namespace_offset < 0 \/ Len(bn_key) < bn_namespace_offset + 8)
              => bn_result = "Ok"

(***************************************************************************)
(* Properties of LevelsController::new.                                    *)
(***************************************************************************)
IsTableFile(name) == name.suffix = FILE_SUFFIX /\ ParseDecimal(name.stem) >= 0

TableFilesOf(disk, id) == {name \in disk : IsTableFile(name) /\ ParseDecimal(name.stem) = id}

\* C19: when a table id of the manifest has no .sst file on disk, opening
\* fails and removes no file; otherwise every .sst file whose id is not in
\* the manifest is removed and every file of a listed table is kept.
C19_RevertToManifest ==
    lv_result # "none" =>
        IF \E id \in lv_manifest : TableFilesOf(lv_before, id) = {}
        THEN lv_result # "Ok" /\ lv_disk = lv_before
        ELSE \A name \in lv_before :
                IF IsTableFile(name) /\ ParseDecimal(name.stem) \notin lv_manifest
                THEN name \notin lv_disk
                ELSE name \in lv_disk

(***************************************************************************)
(* Properties of ValueLog::write.                                          *)
(***************************************************************************)
\* The entries of the last write, in order, over all its requests.
RECURSIVE EntriesOf(_)
EntriesOf(reqs) == IF Len(reqs) = 0 THEN <<>> ELSE Head(reqs) \o EntriesOf(Tail(reqs))

InVlog(e) == e.value_len >= vl_opt.value_threshold

RECURSIVE PointedLen(_, _)
\* The bytes the pointers of the first n entries cover.
PointedLen(es, n) ==
    IF n = 0 THEN 0
    ELSE PointedLen(es, n - 1) + (IF InVlog(es[n]) THEN es[n].vp.len ELSE 0)

\* C20: write gives every entry whose value is at or above the threshold the
\* pointer (fid being written, encoded length, writable offset before its
\* write) and advances the writable offset by the encoded length, the first
\* pointer into a fresh file having offset 20; every entry below the
\* threshold gets the zero pointer and leaves the offset unchanged.
C20_WritePointers ==
    vl_last.result # "none" =>
        LET es == EntriesOf(vl_last.reqs)
        IN  /\ \A i \in 1..Len(es) :
                  IF InVlog(es[i])
                  THEN /\ es[i].vp.fid = vl_last.fid
                       /\ es[i].vp.len > 0
                       /\ es[i].vp.offset = vl_last.woffset + PointedLen(es, i - 1)
                  ELSE es[i].vp = ZeroPointer
            /\ vl_max_fid = vl_last.fid =>
                  vl_woffset = vl_last.woffset + PointedLen(es, Len(es))

BeginSent(c) ==
    /\ Len(ro_read_marks) > 0
    /\ \E i \in 1..Len(ro_read_marks) :
          /\ ro_read_marks[i] = [index |-> ro_rt[c], caller |-> c]
          /\ \A j \in (i + 1)..Len(ro_read_marks) : ro_read_marks[j].caller # c

ReadTsOrder ==
    \A c \in Readers :
        /\ ro_pc[c] # "idle" => ro_rt[c] = ro_next_txn_ts - 1
        /\ ro_pc[c] \in {"locked", "begun"} => ro_lock = c
        /\ ro_pc[c] \in {"begun", "unlocked", "waiting", "returned"} => BeginSent(c)
        /\ ro_pc[c] \in {"unlocked", "waiting", "returned"} => ro_lock # c
        /\ ro_pc[c] = "returned" => TxnMarkDoneUntil >= ro_rt[c]

\* C21: read_ts takes rt = next_txn_ts - 1 under the oracle lock, sends
\* Begin(rt) to the read watermark while it holds the lock, releases the
\* lock before it waits, and returns only once the txn watermark's
\* done_until has reached rt.
C21_ReadTsOrder ==
    /\ []ReadTsOrder
    /\ [][\A c \in Readers :
            /\ ro_read_marks' # ro_read_marks /\ ro_pc'[c] # ro_pc[c]
                  => ro_lock = c /\ ro_lock' = c
            /\ ro_pc'[c] = "waiting" /\ ro_pc[c] # "waiting" => ro_lock # c]_ro_vars

C21_Witness ==
    \E c, d \in Readers :
        /\ c # d
        /\ ro_pc[c] = "returned"
        /\ ro_pc[d] = "begun"
        /\ Len(ro_read_marks) >= 2

(***************************************************************************)
(* Properties of DB::open.                                                 *)
(***************************************************************************)

\* the versions the open store holds: of the active memtable, of the
\* immutable memtables and of the tables
VersionsHeld ==
    {0, op_db.mt} \cup {op_db.imm[i] : i \in DOMAIN op_db.imm}
                  \cup {op_db.tables[i].max_version : i \in DOMAIN op_db.tables}

\* C22: after DB::open, next_txn_ts is max_version + 1, max_version the
\* largest version over the active memtable, the recovered immutable
\* memtables and the tables (0 for an empty store), and the first read
\* timestamp handed out is max_version.
C22_OpenSetsNextTxnTs ==
    op_db.state = "open" =>
        /\ op_db.next_txn_ts = SetMax(VersionsHeld) + 1
        /\ op_rt.state # "none" => op_rt.ts = SetMax(VersionsHeld)

\* a store with a table of a version above 0 is open
C22_Witness ==
    /\ op_db.state = "open"
    /\ op_db.next_txn_ts > 1
    /\ op_mem_files = <<>>
    /\ op_rt.state # "none"

\* the ids of the tables the handler of a level holds
HandlerIds(level) ==
    IF level < Len(op_db.levels)
    THEN {op_db.levels[level + 1][i].id : i \in 1..Len(op_db.levels[level + 1])}
    ELSE {}

\* C33: once the levels controller is built from a manifest, the handler
\* of each level holds the tables the manifest has at that level, whatever
\* the levels of the tables, and tables() gives each table of the manifest
\* once.
C33_HandlersHoldManifestLevels ==
    op_db.state \notin {"closed", "failed"} =>
        /\ op_db.state = "open"
        /\ \A level \in Levels :
              HandlerIds(level) = {id \in DOMAIN op_tables : op_tables[id].level = level}
        /\ Len(op_db.tables) = Cardinality(DOMAIN op_tables)
        /\ {op_db.tables[i].id : i \in 1..Len(op_db.tables)} = DOMAIN op_tables

\* C35: with no transaction in flight, the first new_transaction after
\* DB::open returns in the end, whatever max_version the open recovered.
C35_FirstReadTsReturns == (op_db.state = "open") ~> (op_rt.state = "returned")

\* the memtables a reader of the store can reach: the active one and the
\* immutable list
ReachableMemtables(db) == {db.mt.fid} \cup {db.imm[n] : n \in 1..Len(db.imm)}

\* C37: when ensure_room_for_write returns an error, the memtable that was
\* active before the call is still the active memtable or in the immutable
\* list.
C37_ErrorKeepsOldMemtable ==
    (wq_last.op = "ensure_room_for_write" /\ wq_last.result = "Err")
    => wq_last.before.mt.fid \in ReachableMemtables(wq_db)

(***************************************************************************)
(* Properties of the open of the MANIFEST file.                            *)
(***************************************************************************)

\* the last record of the file is cut short
CutShort(file) == file.exists /\ file.cut.have > 0

\* the open succeeded, the manifest is that of the whole change sets of
\* the file it found, the offset is the end of the last of them, the file
\* ends there and the next write goes there
ReplayedToLastWhole ==
    /\ mr_last.res = "Ok"
    /\ mr_last.manifest = ApplyChangeSetFrom(ManifestNew, AllChanges(mr_last.before.sets)).mf
    /\ mr_last.offset = EndOfRecord(mr_last.before.sets, Len(mr_last.before.sets))
    /\ mr_file.sets = mr_last.before.sets
    /\ mr_file.cut = NoCut
    /\ mr_last.pos = mr_last.offset

\* C30 as stated: the replay of a manifest file whose last record is cut
\* short, inside the length, the checksum or the change set, succeeds,
\* applies the whole change sets before it and returns the offset of the end
\* of the last of them, and the open cuts the file to that offset.
C30_CutTailReplays ==
    (mr_last.op = "open" /\ CutShort(mr_last.before)) => ReplayedToLastWhole

\* C30, amended: the same for a last record whose length, where all four
\* bytes of it are in the file, is not above the size of the file.
C30_CutTailWithinSizeReplays ==
    (/\ mr_last.op = "open"
     /\ CutShort(mr_last.before)
     /\ mr_last.before.cut.have >= 4
        => mr_last.before.cut.length <= ManifestSize(mr_last.before))
    => ReplayedToLastWhole

\* a file of two change sets and a record cut inside its change set has
\* been opened
C30_Witness ==
    /\ mr_last.op = "open"
    /\ mr_last.res = "Ok"
    /\ Len(mr_last.before.sets) = 2
    /\ mr_last.before.cut.have > RECORD_HEADER_LEN
    /\ mr_last.manifest.creations = 2
    /\ mr_file.cut = NoCut

(***************************************************************************)
(* Properties of write_requests and ensure_room_for_write.                 *)
(***************************************************************************)

C26_EnsureRoomRotates ==
    wq_last.op = "ensure_room_for_write"
    => IF wq_last.before.mt.full
       THEN /\ wq_db.mt.fid # wq_last.before.mt.fid
            /\ wq_db.mt.puts = <<>>
            /\ ~wq_db.mt.full
            /\ wq_db.imm = Append(wq_last.before.imm, wq_last.before.mt.fid)
            /\ wq_db.flush = Append(wq_last.before.flush, wq_last.before.mt.fid)
       ELSE /\ wq_db.mt = wq_last.before.mt
            /\ wq_db.imm = wq_last.before.imm
            /\ wq_db.flush = wq_last.before.flush

(***************************************************************************)
(* Properties of the write loop under load and at shutdown.                *)
(***************************************************************************)

\* C24: at most one batch is being written at any time: the loop starts
\* the write of a batch only once the batch it started before has finished,
\* also at 3 * KV_WRITE_CH_CAPACITY buffered requests and at shutdown.
C24_OneBatchAtATime == lp_running <= 1

\* C25: once the loop has taken the shutdown signal it takes the requests
\* left in the write channel, writes them as a last batch and returns.
C25_ShutdownDrainsAndReturns == (lp_close = "taken") ~> (lp_pc = "returned")

(***************************************************************************)
(* Properties of the size of the discard stats file.                       *)
(***************************************************************************)

\* C32: the file is doubled when its last free cell is used: no update
\* reads or writes past the length of the map, whatever the number of fids,
\* and the cell at next_empty_slot is inside the map after each update.
C32_GrowsBeforeFull ==
    dg_last.op = "update" =>
        /\ dg_last.result = "Ok"
        /\ InMap(dg_len, dg_next_empty_slot * 16 + 8)

(***************************************************************************)
(* Properties of the decoding of an entry.                                 *)
(***************************************************************************)

\* C34: the end of the input anywhere inside an entry (meta bytes, header
\* varints, key and value, CRC), a key length above 65536 and a CRC that
\* does not match are all a truncation signal: iteration ends at the entry
\* and returns no error.
C34_CutEntryIsTruncation ==
    (/\ en_last # NoDecode
     /\ \/ en_input.have < EntryLen(en_input)
        \/ en_input.key_len > MAX_KEY_LEN
        \/ ~en_input.crc_ok)
    => /\ en_last.entry = "VLogTruncate"
       /\ en_last.iterate = "Ok"

(***************************************************************************)
(* Specifications.  Each one runs one part of the program from the state   *)
(* after construction and leaves the other parts as constructed.           *)
(***************************************************************************)
vars == <<wm_vars, txn_vars, wr_vars, wal_vars, mf_vars, ds_vars, tb_vars, bn_vars, lv_vars, vl_vars, ro_vars, op_vars, mr_vars, wq_vars, lp_vars, dg_vars, en_vars>>

\* the transactions of a DB opened with Options::default() on an empty
\* directory, none started
TxnAtRest ==
    InitTxn /\ opt = DefaultOptions /\ orc_next_txn_ts = 1 /\ in_runtime

\* a directory with one .mem file without frames, not opened
WalAtRest == InitWal /\ wal_disk = WalFile(<<>>, "zeros")

InitWatermark ==
    EntryAtRest /\ InitDiscardGrow /\ TxnAtRest /\ InitWrite /\ WalAtRest /\ InitManifest /\ InitDiscard /\ TableAtRest /\ InitBanned /\ LevelsAtRest /\ VlogAtRest /\ ReadTsAtRest /\ OpenAtRest /\ ManifestFileAtRest /\ WriteRequestsAtRest /\ InitLoop /\ InitWM

InitTransactions ==
    EntryAtRest /\ InitDiscardGrow /\ InitWM /\ InitWrite /\ WalAtRest /\ InitManifest /\ InitDiscard /\ TableAtRest /\ InitBanned /\ LevelsAtRest /\ VlogAtRest /\ ReadTsAtRest /\ OpenAtRest /\ ManifestFileAtRest /\ WriteRequestsAtRest /\ InitLoop /\ InitTxn

InitWriteLoop ==
    EntryAtRest /\ InitDiscardGrow /\ InitWM /\ TxnAtRest /\ WalAtRest /\ InitManifest /\ InitDiscard /\ TableAtRest /\ InitBanned /\ LevelsAtRest /\ VlogAtRest /\ ReadTsAtRest /\ OpenAtRest /\ ManifestFileAtRest /\ WriteRequestsAtRest /\ InitLoop /\ InitWrite

InitMemTable ==
    EntryAtRest /\ InitDiscardGrow /\ InitWM /\ TxnAtRest /\ InitWrite /\ InitManifest /\ InitDiscard /\ TableAtRest /\ InitBanned /\ LevelsAtRest /\ VlogAtRest /\ ReadTsAtRest /\ OpenAtRest /\ ManifestFileAtRest /\ WriteRequestsAtRest /\ InitLoop /\ InitWal

InitManifestFile ==
    EntryAtRest /\ InitDiscardGrow /\ InitWM /\ TxnAtRest /\ InitWrite /\ WalAtRest /\ InitDiscard /\ TableAtRest /\ InitBanned /\ LevelsAtRest /\ VlogAtRest /\ ReadTsAtRest /\ OpenAtRest /\ ManifestFileAtRest /\ WriteRequestsAtRest /\ InitLoop /\ InitManifest

InitDiscardStats ==
    EntryAtRest /\ InitDiscardGrow /\ InitWM /\ TxnAtRest /\ InitWrite /\ WalAtRest /\ InitManifest /\ TableAtRest /\ InitBanned /\ LevelsAtRest /\ VlogAtRest /\ ReadTsAtRest /\ OpenAtRest /\ ManifestFileAtRest /\ WriteRequestsAtRest /\ InitLoop /\ InitDiscard

InitTableIterator ==
    EntryAtRest /\ InitDiscardGrow /\ InitWM /\ TxnAtRest /\ InitWrite /\ WalAtRest /\ InitManifest /\ InitDiscard /\ InitBanned /\ LevelsAtRest /\ VlogAtRest /\ ReadTsAtRest /\ OpenAtRest /\ ManifestFileAtRest /\ WriteRequestsAtRest /\ InitLoop /\ InitTable

InitIsBanned ==
    EntryAtRest /\ InitDiscardGrow /\ InitWM /\ TxnAtRest /\ InitWrite /\ WalAtRest /\ InitManifest /\ InitDiscard /\ TableAtRest /\ LevelsAtRest /\ VlogAtRest /\ ReadTsAtRest /\ OpenAtRest /\ ManifestFileAtRest /\ WriteRequestsAtRest /\ InitLoop /\ InitBanned

InitLevelsController ==
    EntryAtRest /\ InitDiscardGrow /\ InitWM /\ TxnAtRest /\ InitWrite /\ WalAtRest /\ InitManifest /\ InitDiscard /\ TableAtRest /\ InitBanned /\ VlogAtRest /\ ReadTsAtRest /\ OpenAtRest /\ ManifestFileAtRest /\ WriteRequestsAtRest /\ InitLoop /\ InitLevels

InitValueLog ==
    EntryAtRest /\ InitDiscardGrow /\ InitWM /\ TxnAtRest /\ InitWrite /\ WalAtRest /\ InitManifest /\ InitDiscard /\ TableAtRest /\ InitBanned /\ LevelsAtRest /\ ReadTsAtRest /\ OpenAtRest /\ ManifestFileAtRest /\ WriteRequestsAtRest /\ InitLoop /\ InitVlog

InitOracleReadTs ==
    EntryAtRest /\ InitDiscardGrow /\ InitWM /\ TxnAtRest /\ InitWrite /\ WalAtRest /\ InitManifest /\ InitDiscard /\ TableAtRest /\ InitBanned /\ LevelsAtRest /\ VlogAtRest /\ OpenAtRest /\ ManifestFileAtRest /\ WriteRequestsAtRest /\ InitLoop /\ InitReadTs

InitDbOpen ==
    EntryAtRest /\ InitDiscardGrow /\ InitWM /\ TxnAtRest /\ InitWrite /\ WalAtRest /\ InitManifest /\ InitDiscard /\ TableAtRest /\ InitBanned /\ LevelsAtRest /\ VlogAtRest /\ ReadTsAtRest /\ ManifestFileAtRest /\ WriteRequestsAtRest /\ InitLoop /\ InitOpen

InitManifestOpen ==
    EntryAtRest /\ InitDiscardGrow /\ InitWM /\ TxnAtRest /\ InitWrite /\ WalAtRest /\ InitManifest /\ InitDiscard /\ TableAtRest /\ InitBanned /\ LevelsAtRest /\ VlogAtRest /\ ReadTsAtRest /\ OpenAtRest /\ WriteRequestsAtRest /\ InitLoop /\ InitManifestReplay

InitWriteRequestsCall ==
    EntryAtRest /\ InitDiscardGrow /\ InitWM /\ TxnAtRest /\ InitWrite /\ WalAtRest /\ InitManifest /\ InitDiscard /\ TableAtRest /\ InitBanned /\ LevelsAtRest /\ VlogAtRest /\ ReadTsAtRest /\ OpenAtRest /\ ManifestFileAtRest /\ InitLoop /\ InitWriteRequests

InitDoWrites ==
    EntryAtRest /\ InitDiscardGrow /\ InitWM /\ TxnAtRest /\ InitWrite /\ WalAtRest /\ InitManifest /\ InitDiscard /\ TableAtRest /\ InitBanned /\ LevelsAtRest /\ VlogAtRest /\ ReadTsAtRest /\ OpenAtRest /\ ManifestFileAtRest /\ WriteRequestsAtRest /\ InitLoop

InitDiscardStatsGrow ==
    EntryAtRest /\ InitWM /\ TxnAtRest /\ InitWrite /\ WalAtRest /\ InitManifest /\ InitDiscard /\ TableAtRest /\ InitBanned /\ LevelsAtRest /\ VlogAtRest /\ ReadTsAtRest /\ OpenAtRest /\ ManifestFileAtRest /\ WriteRequestsAtRest /\ InitLoop /\ InitDiscardGrow

InitLogEntry ==
    InitDiscardGrow /\ InitWM /\ TxnAtRest /\ InitWrite /\ WalAtRest /\ InitManifest /\ InitDiscard /\ TableAtRest /\ InitBanned /\ LevelsAtRest /\ VlogAtRest /\ ReadTsAtRest /\ OpenAtRest /\ ManifestFileAtRest /\ WriteRequestsAtRest /\ InitLoop /\ InitEntry

SpecWM == InitWatermark /\ [][NextWM]_vars

SpecTxn == InitTransactions /\ [][NextTxn]_vars

SpecWrite == InitWriteLoop /\ [][NextWrite]_vars

SpecWal == InitMemTable /\ [][NextWal]_vars

SpecManifest == InitManifestFile /\ [][NextManifest]_vars

SpecDiscard == InitDiscardStats /\ [][NextDiscard]_vars

SpecTable == InitTableIterator /\ [][NextTable]_vars

SpecBanned == InitIsBanned /\ [][NextBanned]_vars

SpecLevels == InitLevelsController /\ [][NextLevels]_vars

SpecVlog == InitValueLog /\ [][NextVlog]_vars

SpecReadTs == InitOracleReadTs /\ [][NextReadTs]_vars

SpecOpen == InitDbOpen /\ [][NextOpen]_vars

SpecManifestOpen == InitManifestOpen /\ [][NextManifestReplay]_vars

SpecWriteRequests == InitWriteRequestsCall /\ [][NextWriteRequests]_vars

SpecLoop == InitDoWrites /\ [][NextLoop]_vars

SpecLoopFair ==
    /\ SpecLoop
    /\ WF_vars(LoopRecv) /\ WF_vars(LoopNotified) /\ WF_vars(LoopWriteReqs)
    /\ WF_vars(LoopTakeClose) /\ WF_vars(LoopDrain)

SpecDiscardGrow == InitDiscardStatsGrow /\ [][NextDiscardGrow]_vars

SpecEntry == InitLogEntry /\ [][NextEntry]_vars

SpecOpenFair ==
    /\ SpecOpen
    /\ WF_vars(OpenReadTs) /\ WF_vars(OpenTxnMarkProcess)

Spec == SpecTxn
====
